------------------------ MODULE OrganisationsProofs -------------------------
(***************************************************************************)
(* Proofs about InactiveUsers: which schedules make the windows cover      *)
(* every user, for any thresholds, windows and number of runs.  And about  *)
(* Organisations, for any accounts, ids, names and requests.               *)
(***************************************************************************)
EXTENDS Organisations, TLAPS

-----------------------------------------------------------------------------
(* Type correctness of InactiveUsers. *)

LEMMA InitType == Init => TypeOK
BY DEF Init, TypeOK, IdleRun, RunState

LEMMA SendType ==
  ASSUME TypeOK, NEW r, NEW S \in SUBSET User, NEW d \in WARNING_INTERVALS, send_warnings(r, S, d)
  PROVE  /\ sent' \in [User -> SUBSET WARNING_INTERVALS]
         /\ refused' \in [User -> SUBSET WARNING_INTERVALS]
         /\ due' \in [User -> Nat] /\ manually' \subseteq User
<1>1. d \in Nat
  BY InactiveAssumption
<1> QED
  BY <1>1 DEF send_warnings, TypeOK

LEMMA StartType ==
  ASSUME TypeOK, NEW r \in Run, start(r)
  PROVE  run' \in [Run -> RunState]
<1>1. [pc |-> "warn", at |-> now, levels |-> WARNING_INTERVALS, doomed |-> {}] \in RunState
  BY DEF TypeOK, RunState
<1> QED
  BY <1>1 DEF start, TypeOK

LEMMA ToTellType ==
  ASSUME TypeOK, NEW r, NEW d
  PROVE  to_tell(r, d) \subseteq users_to_warn(r, d) /\ to_tell(r, d) \in SUBSET User
BY DEF to_tell, users_to_warn, TypeOK

LEMMA IdleType == IdleRun \in RunState
BY DEF IdleRun, RunState

LEMMA StepType == TypeOK /\ [Next]_vars => TypeOK'
<1> SUFFICES ASSUME TypeOK, [Next]_vars PROVE TypeOK'
  OBVIOUS
<1> USE DEF messages
<1>1. ASSUME NEW u \in User, login(u) PROVE TypeOK'
  BY <1>1 DEF login, TypeOK
<1>2. ASSUME NEW u \in User, delete_user_by_identifier(u) PROVE TypeOK'
  BY <1>2 DEF delete_user_by_identifier, TypeOK
<1>3. CASE cron_start
  BY <1>3, StartType, InactiveAssumption DEF cron_start, TypeOK
<1>4. ASSUME NEW r \in Run, delete_inactive_users(r) PROVE TypeOK'
  BY <1>4, StartType DEF delete_inactive_users, TypeOK
<1>5. ASSUME NEW r \in Run, NEW d \in WARNING_INTERVALS, warn(r, d) PROVE TypeOK'
  <2>1. run' \in [Run -> RunState]
    BY <1>5 DEF warn, TypeOK, RunState
  <2> QED
    BY <1>5, <2>1, SendType, ToTellType DEF warn, TypeOK
<1>6. ASSUME NEW r \in Run, warn_end(r) PROVE TypeOK'
  <2>1. run' \in [Run -> RunState]
    BY <1>6 DEF warn_end, TypeOK, RunState
  <2>2. warned_at' \in Nat
    BY <1>6 DEF warn_end, TypeOK, RunState
  <2> QED
    BY <1>6, <2>1, <2>2 DEF warn_end, TypeOK
<1>7. ASSUME NEW r \in Run, NEW d \in WARNING_INTERVALS, warn_fail(r, d) PROVE TypeOK'
  <2>1. PICK S \in SUBSET to_tell(r, d) : send_warnings(r, S, d)
    BY <1>7 DEF warn_fail
  <2>2. S \in SUBSET User
    BY <2>1, ToTellType
  <2> QED
    BY <1>7, <2>1, <2>2, SendType, IdleType DEF warn_fail, TypeOK
<1>8. ASSUME NEW r \in Run, select_users_to_delete(r) PROVE TypeOK'
  <2>1. users_to_delete(r) \in SUBSET User
    BY DEF users_to_delete, TypeOK
  <2>2. run' \in [Run -> RunState]
    BY <1>8, <2>1 DEF select_users_to_delete, TypeOK, RunState
  <2> QED
    BY <1>8, <2>2 DEF select_users_to_delete, TypeOK
<1>9. ASSUME NEW r \in Run, delete_users(r) PROVE TypeOK'
  BY <1>9, IdleType DEF delete_users, TypeOK
<1>10. ASSUME NEW r \in Run, delete_fail(r) PROVE TypeOK'
  BY <1>10, IdleType DEF delete_fail, TypeOK
<1>11. CASE tick
  BY <1>11 DEF tick, TypeOK
<1>12. CASE UNCHANGED vars
  BY <1>12 DEF vars, TypeOK
<1> QED
  BY <1>1, <1>2, <1>3, <1>4, <1>5, <1>6, <1>7, <1>8, <1>9, <1>10, <1>11, <1>12 DEF Next

\* Every state has its type: a login date is never missing, a run selects existing ids.
THEOREM TypeCorrect == Spec => []TypeOK
BY InitType, StepType, PTL DEF Spec

-----------------------------------------------------------------------------
(***************************************************************************)
(* The schedule: a run happens within one day, and the last complete round *)
(* of warnings is at most MaxGap days old.                                 *)
(***************************************************************************)
ScheduleInv ==
  /\ now <= warned_at + MaxGap /\ warned_at <= now
  /\ \A u \in User : last_login_at[u] <= now
  /\ \A r \in Run : run[r].pc # "idle" => run[r].at = now
  /\ \A r \in Run : run[r].pc \in {"select", "delete"} => warned_at = now

LEMMA ScheduleStep == TypeOK /\ ScheduleInv /\ [Next]_vars => ScheduleInv'
<1> SUFFICES ASSUME TypeOK, ScheduleInv, [Next]_vars PROVE ScheduleInv'
  OBVIOUS
<1> USE DEF ScheduleInv, TypeOK
<1>1. ASSUME NEW u \in User, login(u) PROVE ScheduleInv'
  BY <1>1 DEF login
<1>2. ASSUME NEW u \in User, delete_user_by_identifier(u) PROVE ScheduleInv'
  BY <1>2 DEF delete_user_by_identifier
<1>3. CASE cron_start
  BY <1>3, InactiveAssumption DEF cron_start, start
<1>4. ASSUME NEW r \in Run, delete_inactive_users(r) PROVE ScheduleInv'
  BY <1>4 DEF delete_inactive_users, start
<1>5. ASSUME NEW r \in Run, NEW d \in WARNING_INTERVALS, warn(r, d) PROVE ScheduleInv'
  BY <1>5 DEF warn, RunState
<1>6. ASSUME NEW r \in Run, warn_end(r) PROVE ScheduleInv'
  BY <1>6, InactiveAssumption DEF warn_end, RunState
<1>7. ASSUME NEW r \in Run, NEW d \in WARNING_INTERVALS, warn_fail(r, d) PROVE ScheduleInv'
  BY <1>7 DEF warn_fail, IdleRun
<1>8. ASSUME NEW r \in Run, select_users_to_delete(r) PROVE ScheduleInv'
  BY <1>8 DEF select_users_to_delete, RunState
<1>9. ASSUME NEW r \in Run, delete_users(r) PROVE ScheduleInv'
  BY <1>9 DEF delete_users, IdleRun
<1>10. ASSUME NEW r \in Run, delete_fail(r) PROVE ScheduleInv'
  BY <1>10 DEF delete_fail, IdleRun
<1>11. CASE tick
  <2>1. now' = now + 1 /\ now < warned_at + MaxGap /\ UNCHANGED <<warned_at, last_login_at, run>>
    BY <1>11 DEF tick
  <2>2. \A r \in Run : run[r].pc = "idle"
    BY <1>11 DEF tick
  <2> QED
    BY <2>1, <2>2, InactiveAssumption
<1>12. CASE UNCHANGED vars
  BY <1>12 DEF vars
<1> QED
  BY <1>1, <1>2, <1>3, <1>4, <1>5, <1>6, <1>7, <1>8, <1>9, <1>10, <1>11, <1>12 DEF Next

LEMMA ScheduleInit == Init => ScheduleInv
BY InactiveAssumption DEF Init, ScheduleInv, IdleRun

-----------------------------------------------------------------------------
(***************************************************************************)
(* All warnings.  Whoever was old enough for warning d at the last complete*)
(* round has been posted d; so has whoever is old enough now, once a running *)
(* round is past d.                                                        *)
(***************************************************************************)
Weekly == Token /\ MaxGap <= Window

Age(u) == now - last_login_at[u]

AllInv ==
  \A u \in users, d \in WARNING_INTERVALS :
    /\ warned_at - last_login_at[u] > THRESHOLD - d => d \in Tried(u)
    /\ \A r \in Run : /\ run[r].pc = "warn" /\ d \notin run[r].levels
                      /\ Age(u) > THRESHOLD - d
                      => d \in Tried(u)

LEMMA AllInit == Init => AllInv
BY InactiveAssumption DEF Init, AllInv, IdleRun

\* The messages of one step only add to what was asked of OSM.
LEMMA TriedGrows ==
  ASSUME TypeOK, NEW r, NEW S, NEW d, send_warnings(r, S, d)
  PROVE  \A u \in User : Tried(u) \subseteq Tried(u)' /\ (u \in S => d \in Tried(u)')
<1>1. PICK told \in SUBSET S :
        /\ sent' = [u \in User |-> IF u \in told THEN sent[u] \union {d} ELSE sent[u]]
        /\ refused' = [u \in User |-> IF u \in S \ told THEN refused[u] \union {d} ELSE refused[u]]
  BY DEF send_warnings
<1> QED
  BY <1>1 DEF Tried, TypeOK

\* A user that is old enough for warning d and has not been sent it is in its window.
LEMMA InWindow ==
  ASSUME TypeOK, ScheduleInv, AllInv, Weekly, NEW r \in Run, run[r].pc = "warn",
         NEW d \in WARNING_INTERVALS, NEW u \in users, Age(u) > THRESHOLD - d, d \notin Tried(u)
  PROVE  u \in users_to_warn(r, d)
<1>1. u \in User /\ last_login_at[u] \in Nat /\ now \in Nat /\ warned_at \in Nat /\ d \in Nat
  BY InactiveAssumption DEF TypeOK
<1>2. run[r].at = now /\ now <= warned_at + Window
  BY <1>1, InactiveAssumption DEF ScheduleInv, Weekly, TypeOK
<1>3. warned_at - last_login_at[u] <= THRESHOLD - d
  BY <1>1, InactiveAssumption DEF AllInv
<1> QED
  BY <1>1, <1>2, <1>3, InactiveAssumption DEF users_to_warn, Age

LEMMA AllStep == Weekly /\ TypeOK /\ ScheduleInv /\ AllInv /\ [Next]_vars => AllInv'
<1> SUFFICES ASSUME Weekly, TypeOK, ScheduleInv, AllInv, [Next]_vars PROVE AllInv'
  OBVIOUS
<1>0. users \subseteq User /\ \A u \in User : last_login_at[u] \in Nat /\ last_login_at[u] <= now
  BY DEF TypeOK, ScheduleInv
<1> USE DEF Tried, messages
<1>1. ASSUME NEW u \in User, login(u) PROVE AllInv'
  <2>1. \A v \in users', d \in WARNING_INTERVALS : v # u =>
           v \in users /\ last_login_at'[v] = last_login_at[v] /\ Tried(v)' = Tried(v)
    BY <1>1, <1>0 DEF login, TypeOK
  <2>2. last_login_at'[u] = now /\ now' = now /\ warned_at' = warned_at /\ run' = run
    BY <1>1 DEF login, TypeOK
  <2>3. \A d \in WARNING_INTERVALS : THRESHOLD - d >= 0 /\ THRESHOLD - d \in Int
    BY InactiveAssumption
  <2>4. warned_at - now <= 0 /\ now - now <= 0 /\ now \in Nat /\ warned_at \in Nat
    BY DEF ScheduleInv, TypeOK
  <2>5. ASSUME NEW v \in users', NEW d \in WARNING_INTERVALS
        PROVE  /\ warned_at' - last_login_at'[v] > THRESHOLD - d => d \in Tried(v)'
               /\ \A r \in Run : /\ run'[r].pc = "warn" /\ d \notin run'[r].levels
                                 /\ now' - last_login_at'[v] > THRESHOLD - d
                                 => d \in Tried(v)'
    <3>1. CASE v = u
      BY <3>1, <2>2, <2>3, <2>4
    <3>2. CASE v # u
      BY <3>2, <2>1, <2>2 DEF AllInv, Age
    <3> QED
      BY <3>1, <3>2
  <2> QED
    BY <2>5 DEF AllInv, Age
<1>2. ASSUME NEW u \in User, delete_user_by_identifier(u) PROVE AllInv'
  BY <1>2 DEF delete_user_by_identifier, AllInv, Age
<1>3. ASSUME NEW r \in Run, start(r), UNCHANGED <<users, last_login_at, messages, now, warned_at>>
      PROVE  AllInv'
  BY <1>3 DEF start, AllInv, Age, TypeOK
<1>5. ASSUME NEW r \in Run, NEW d \in WARNING_INTERVALS, warn(r, d) PROVE AllInv'
  <2>1. UNCHANGED <<users, last_login_at, now, warned_at>> /\ run[r].pc = "warn"
    BY <1>5 DEF warn
  <2>2. \A q \in Run : /\ run'[q].pc = run[q].pc
                       /\ run'[q].levels = IF q = r THEN run[r].levels \ {d} ELSE run[q].levels
    BY <1>5 DEF warn, TypeOK, RunState
  <2>3. \A u \in users : Tried(u) \subseteq Tried(u)'
    BY <1>5, <1>0, TriedGrows DEF warn
  <2>4. \A u \in users_to_warn(r, d) : u \in users => d \in Tried(u)'
    BY <1>5, <1>0, TriedGrows DEF warn, to_tell, Weekly
  <2>5. \A u \in users : Age(u) > THRESHOLD - d => d \in Tried(u)'
    BY <2>1, <2>3, <2>4, InWindow
  <2> QED
    BY <2>1, <2>2, <2>3, <2>5 DEF AllInv, Age
<1>6. ASSUME NEW r \in Run, warn_end(r) PROVE AllInv'
  <2>1. run[r].pc = "warn" /\ run[r].levels = {} /\ warned_at' = now
    BY <1>6 DEF warn_end, ScheduleInv
  <2>2. UNCHANGED <<users, last_login_at, messages, now>>
    BY <1>6 DEF warn_end
  <2>3. \A q \in Run : run'[q].pc = "warn" => run[q].pc = "warn" /\ run'[q] = run[q]
    BY <1>6 DEF warn_end, TypeOK, RunState
  <2> QED
    BY <2>1, <2>2, <2>3 DEF AllInv, Age
<1>7. ASSUME NEW r \in Run, NEW d \in WARNING_INTERVALS, warn_fail(r, d) PROVE AllInv'
  <2>1. UNCHANGED <<users, last_login_at, now, warned_at>>
    BY <1>7 DEF warn_fail
  <2>2. \A q \in Run : run'[q].pc = "warn" => run'[q] = run[q]
    BY <1>7 DEF warn_fail, TypeOK, IdleRun
  <2>3. \A u \in users : Tried(u) \subseteq Tried(u)'
    BY <1>7, <1>0, TriedGrows DEF warn_fail
  <2> QED
    BY <2>1, <2>2, <2>3 DEF AllInv, Age
<1>8. ASSUME NEW r \in Run,
             select_users_to_delete(r) \/ delete_users(r) \/ delete_fail(r) PROVE AllInv'
  <2>1. UNCHANGED <<last_login_at, messages, now, warned_at>> /\ users' \subseteq users
    BY <1>8 DEF select_users_to_delete, delete_users, delete_fail
  <2>2. \A q \in Run : run'[q].pc = "warn" => run'[q] = run[q]
    BY <1>8 DEF select_users_to_delete, delete_users, delete_fail, TypeOK, IdleRun, RunState
  <2> QED
    BY <2>1, <2>2 DEF AllInv, Age
<1>11. CASE tick
  BY <1>11 DEF tick, AllInv
<1>12. CASE UNCHANGED vars
  BY <1>12 DEF vars, AllInv, Age
<1> QED
  BY <1>1, <1>2, <1>3, <1>5, <1>6, <1>7, <1>8, <1>11, <1>12, InactiveAssumption
  DEF Next, cron_start, delete_inactive_users

\* If runs that send their warnings are never further apart than a window is wide,
\* whoever a run selects for deletion was sent every warning, those apart that OSM refused.
THEOREM AllWarningsSentHolds == Weekly => (Spec => AllWarningsSent)
<1> SUFFICES ASSUME Weekly PROVE Spec => AllWarningsSent
  OBVIOUS
<1>1. TypeOK /\ ScheduleInv /\ AllInv /\ [Next]_vars => (TypeOK /\ ScheduleInv /\ AllInv)'
  BY StepType, ScheduleStep, AllStep
<1>2. TypeOK /\ ScheduleInv /\ AllInv /\ [Next]_vars
        => [\A r \in Run : select_users_to_delete(r) =>
              \A u \in users_to_delete(r) : Tried(u) = WARNING_INTERVALS]_vars
  <2> SUFFICES ASSUME TypeOK, ScheduleInv, AllInv,
                      NEW r \in Run, select_users_to_delete(r), NEW u \in users_to_delete(r)
               PROVE  Tried(u) = WARNING_INTERVALS
    OBVIOUS
  <2>1. run[r].at = now /\ warned_at = now
    BY DEF select_users_to_delete, ScheduleInv
  <2>2. u \in users /\ now - last_login_at[u] > THRESHOLD
    BY <2>1, InactiveAssumption DEF users_to_delete, TypeOK
  <2>3. Tried(u) \subseteq WARNING_INTERVALS
    BY <2>2 DEF Tried, TypeOK
  <2>4. ASSUME NEW d \in WARNING_INTERVALS PROVE d \in Tried(u)
    <3>1. now - last_login_at[u] > THRESHOLD - d
      BY <2>2, InactiveAssumption DEF TypeOK
    <3> QED
      BY <2>1, <2>2, <3>1 DEF AllInv
  <2> QED
    BY <2>3, <2>4
<1>3. Init => TypeOK /\ ScheduleInv /\ AllInv
  BY InitType, ScheduleInit, AllInit
<1> QED
  BY <1>1, <1>2, <1>3, PTL DEF Spec, AllWarningsSent

-----------------------------------------------------------------------------
(***************************************************************************)
(* Promises.  A message names a day that is less than a window later than  *)
(* the account is old enough, whichever run sends it.  If the scheduled    *)
(* runs are on time and warnings are whole periods ahead, the day that     *)
(* such a run names is the day of another one: no scheduled run in between *)
(* may delete the account.                                                 *)
(***************************************************************************)
PromiseInv ==
  /\ \A u \in User : due[u] <= last_login_at[u] + THRESHOLD + Window
  /\ \A u \in User : last_login_at[u] = now => due[u] <= now
  /\ \A r \in Run : run[r].pc = "delete" =>
       \A u \in run[r].doomed : last_login_at[u] + THRESHOLD < now \/ last_login_at[u] = now

LEMMA PromiseInit == Init => PromiseInv
BY InactiveAssumption DEF Init, PromiseInv, IdleRun

\* Who is told what, by a turn of the loop or by one that is broken off.
LEMMA Told ==
  ASSUME TypeOK, ScheduleInv, NEW r \in Run, NEW d \in WARNING_INTERVALS,
         warn(r, d) \/ warn_fail(r, d)
  PROVE  \E told \in SUBSET User :
           /\ \A u \in told : /\ last_login_at[u] < now - (THRESHOLD - d)
                              /\ last_login_at[u] >= now - (THRESHOLD - d) - Window
           /\ due' = [u \in User |-> IF u \in told THEN now + d ELSE due[u]]
           /\ manually' = IF r = Cron THEN manually \ told ELSE manually \union told
<1>1. run[r].pc = "warn" /\ run[r].at = now
  BY DEF warn, warn_fail, ScheduleInv
<1>2. PICK S \in SUBSET to_tell(r, d) : send_warnings(r, S, d)
  BY DEF warn, warn_fail
<1>3. PICK told \in SUBSET S :
        /\ due' = [u \in User |-> IF u \in told THEN now + d ELSE due[u]]
        /\ manually' = IF r = Cron THEN manually \ told ELSE manually \union told
  BY <1>2 DEF send_warnings
<1>4. told \in SUBSET User /\ told \subseteq users_to_warn(r, d)
  BY <1>2, <1>3, ToTellType
<1> QED
  BY <1>1, <1>3, <1>4 DEF users_to_warn

LEMMA PromiseStep == TypeOK /\ ScheduleInv /\ PromiseInv /\ [Next]_vars => PromiseInv'
<1> SUFFICES ASSUME TypeOK, ScheduleInv, PromiseInv, [Next]_vars PROVE PromiseInv'
  OBVIOUS
<1>0. /\ now \in Nat /\ THRESHOLD \in Nat /\ Window \in Nat
      /\ \A u \in User : last_login_at[u] \in Nat /\ due[u] \in Nat /\ last_login_at[u] <= now
  BY InactiveAssumption DEF TypeOK, ScheduleInv
<1> USE DEF messages
<1>1. ASSUME NEW u \in User, login(u) PROVE PromiseInv'
  <2>1. /\ UNCHANGED <<now, run>> /\ last_login_at'[u] = now /\ due'[u] = now
        /\ \A v \in User \ {u} : last_login_at'[v] = last_login_at[v] /\ due'[v] = due[v]
    BY <1>1 DEF login, TypeOK
  <2>2. \A r \in Run : run[r].doomed \subseteq User
    BY DEF TypeOK, RunState
  <2> QED
    BY <1>0, <2>1, <2>2 DEF PromiseInv
<1>2. ASSUME NEW u \in User, delete_user_by_identifier(u) PROVE PromiseInv'
  BY <1>2 DEF delete_user_by_identifier, PromiseInv
<1>3. ASSUME NEW r \in Run, start(r), UNCHANGED <<last_login_at, due, now>> PROVE PromiseInv'
  BY <1>3 DEF start, PromiseInv, TypeOK
<1>5. ASSUME NEW r \in Run, NEW d \in WARNING_INTERVALS, warn(r, d) \/ warn_fail(r, d)
      PROVE  PromiseInv'
  <2>1. PICK told \in SUBSET User :
          /\ \A u \in told : /\ last_login_at[u] < now - (THRESHOLD - d)
                             /\ last_login_at[u] >= now - (THRESHOLD - d) - Window
          /\ due' = [u \in User |-> IF u \in told THEN now + d ELSE due[u]]
    BY <1>5, Told
  <2>2. d \in Nat /\ d <= THRESHOLD
    BY InactiveAssumption
  <2>3. UNCHANGED <<now, last_login_at>>
    BY <1>5 DEF warn, warn_fail
  <2>4. \A q \in Run : run'[q].pc = "delete" => run'[q] = run[q]
    BY <1>5 DEF warn, warn_fail, TypeOK, IdleRun, RunState
  <2>5. ASSUME NEW u \in User
        PROVE  due'[u] <= last_login_at[u] + THRESHOLD + Window
               /\ (last_login_at[u] = now => due'[u] <= now)
    <3>1. CASE u \in told
      BY <1>0, <2>1, <2>2, <3>1
    <3>2. CASE u \notin told
      BY <2>1, <3>2 DEF PromiseInv
    <3> QED
      BY <3>1, <3>2
  <2> QED
    BY <2>3, <2>4, <2>5 DEF PromiseInv
<1>6. ASSUME NEW r \in Run, warn_end(r) \/ delete_users(r) \/ delete_fail(r) PROVE PromiseInv'
  <2>1. UNCHANGED <<now, last_login_at, due>>
    BY <1>6 DEF warn_end, delete_users, delete_fail
  <2>2. \A q \in Run : run'[q].pc = "delete" => run'[q] = run[q]
    BY <1>6 DEF warn_end, delete_users, delete_fail, TypeOK, IdleRun, RunState
  <2> QED
    BY <2>1, <2>2 DEF PromiseInv
<1>7. ASSUME NEW r \in Run, select_users_to_delete(r) PROVE PromiseInv'
  <2>1. /\ UNCHANGED <<now, last_login_at, due>> /\ run[r].at = now
        /\ run' = [run EXCEPT ![r].pc = "delete", ![r].doomed = users_to_delete(r)]
    BY <1>7 DEF select_users_to_delete, ScheduleInv
  <2>2. \A u \in users_to_delete(r) : last_login_at[u] + THRESHOLD < now
    BY <2>1, <1>0 DEF users_to_delete, TypeOK
  <2>3. \A q \in Run : IF q = r THEN run'[q].doomed = users_to_delete(r) ELSE run'[q] = run[q]
    BY <2>1 DEF TypeOK, RunState
  <2> QED
    BY <2>1, <2>2, <2>3 DEF PromiseInv
<1>9. CASE tick
  <2>1. now' = now + 1 /\ UNCHANGED <<last_login_at, due, run>>
    BY <1>9 DEF tick
  <2>2. \A r \in Run : run[r].pc = "idle"
    BY <1>9 DEF tick
  <2> QED
    BY <1>0, <2>1, <2>2 DEF PromiseInv
<1>10. CASE UNCHANGED vars
  BY <1>10 DEF vars, PromiseInv
<1> QED
  BY <1>1, <1>2, <1>3, <1>5, <1>6, <1>7, <1>9, <1>10, InactiveAssumption
  DEF Next, cron_start, delete_inactive_users

\* Whom a run deletes, whatever the schedule.
LEMMA Deleted ==
  ASSUME TypeOK, ScheduleInv, PromiseInv, NEW r \in Run, delete_users(r),
         NEW u \in run[r].doomed \intersect users, due[u] > now
  PROVE  due[u] < now + Window
<1>1. /\ u \in User /\ now \in Nat /\ due[u] \in Nat /\ last_login_at[u] \in Nat
      /\ THRESHOLD \in Nat /\ Window \in Nat
  BY InactiveAssumption DEF TypeOK
<1>2. last_login_at[u] + THRESHOLD < now
  BY <1>1 DEF delete_users, PromiseInv
<1> QED
  BY <1>1, <1>2 DEF PromiseInv

\* The first half of NotSoonerThanTold, from no assumption on the schedule: however late the
\* scheduled runs are and however often the job is started on demand, nobody is deleted a window or
\* more before the day the last message named.
THEOREM LessThanAWindowEarly ==
  Spec => [][\A r \in Run : delete_users(r) =>
               \A u \in run[r].doomed \intersect users : due[u] > now => due[u] < now + Window]_vars
<1>1. TypeOK /\ ScheduleInv /\ PromiseInv /\ [Next]_vars
        => (TypeOK /\ ScheduleInv /\ PromiseInv)'
  BY StepType, ScheduleStep, PromiseStep
<1>2. TypeOK /\ ScheduleInv /\ PromiseInv /\ [Next]_vars
        => [\A r \in Run : delete_users(r) =>
              \A u \in run[r].doomed \intersect users : due[u] > now => due[u] < now + Window]_vars
  BY Deleted
<1>3. Init => TypeOK /\ ScheduleInv /\ PromiseInv
  BY InitType, ScheduleInit, PromiseInit
<1> QED
  BY <1>1, <1>2, <1>3, PTL DEF Spec

Multiple(x) == \E k \in Int : x = k * Period

OnTime ==
  /\ Late = 0 /\ Window <= Period
  /\ \A d \in WARNING_INTERVALS : Multiple(d)

LEMMA MultipleOfMod ==
  ASSUME NEW a \in Nat, a % Period = 0
  PROVE  Multiple(a)
<1>1. a \div Period \in Int
  BY InactiveAssumption
<1>2. a = Period * (a \div Period) + (a % Period)
  BY InactiveAssumption, Z3
<1> DEFINE q == a \div Period
<1>3. q \in Int /\ a = Period * q
  BY <1>1, <1>2, InactiveAssumption
<1> HIDE DEF q
<1>4. a = q * Period
  BY <1>3, InactiveAssumption
<1> QED
  BY <1>3, <1>4 DEF Multiple

LEMMA MultipleSum ==
  ASSUME NEW a \in Int, NEW b \in Int, Multiple(a), Multiple(b)
  PROVE  Multiple(a+b)
<1>1. PICK j \in Int : a = j * Period
  BY DEF Multiple
<1>2. PICK k \in Int : b = k * Period
  BY DEF Multiple
<1>3. a + b = (j + k) * Period
  BY <1>1, <1>2, InactiveAssumption
<1> QED
  BY <1>3 DEF Multiple

LEMMA MultipleBelow ==
  ASSUME NEW a \in Int, NEW b \in Int, Multiple(a), Multiple(b), a < b + Period
  PROVE  a <= b
<1>1. PICK j \in Int : a = j * Period
  BY DEF Multiple
<1>2. PICK k \in Int : b = k * Period
  BY DEF Multiple
<1>3. CASE j <= k
  BY <1>3, <1>1, <1>2, InactiveAssumption
<1>4. CASE j >= k + 1
  <2>1. j * Period >= (k + 1) * Period
    BY <1>4, InactiveAssumption
  <2>2. (k + 1) * Period = k * Period + Period
    BY InactiveAssumption
  <2> QED
    BY <2>1, <2>2, <1>1, <1>2, InactiveAssumption
<1> QED
  BY <1>3, <1>4

\* What scheduled runs do, in whole periods.
RoundInv ==
  /\ run[Cron].pc # "idle" => Multiple(now)
  /\ \A u \in User : due[u] <= last_login_at[u] \/ u \in manually \/ Multiple(due[u])

LEMMA RoundInit == Init => RoundInv
BY InactiveAssumption DEF Init, RoundInv, IdleRun

LEMMA RoundStep == OnTime /\ TypeOK /\ ScheduleInv /\ RoundInv /\ [Next]_vars => RoundInv'
<1> SUFFICES ASSUME OnTime, TypeOK, ScheduleInv, RoundInv, [Next]_vars PROVE RoundInv'
  OBVIOUS
<1>0. /\ now \in Nat /\ Cron \in Run
      /\ \A u \in User : last_login_at[u] \in Nat /\ due[u] \in Nat /\ last_login_at[u] <= now
  BY InactiveAssumption DEF TypeOK, ScheduleInv
<1> USE DEF messages
<1>1. ASSUME NEW u \in User, login(u) PROVE RoundInv'
  <2>1. /\ UNCHANGED <<now, run>> /\ last_login_at'[u] = now /\ due'[u] = now
        /\ \A v \in User \ {u} : last_login_at'[v] = last_login_at[v] /\ due'[v] = due[v]
        /\ manually' = manually \ {u}
    BY <1>1 DEF login, TypeOK
  <2> QED
    BY <1>0, <2>1 DEF RoundInv
<1>2. ASSUME NEW u \in User, delete_user_by_identifier(u) PROVE RoundInv'
  BY <1>2 DEF delete_user_by_identifier, RoundInv
<1>3. CASE cron_start
  <2>1. now % Period = 0 /\ UNCHANGED <<now, due, last_login_at, manually>>
    BY <1>0, <1>3, InactiveAssumption DEF cron_start, OnTime
  <2>2. Multiple(now)
    BY <1>0, <2>1, MultipleOfMod
  <2> QED
    BY <2>1, <2>2 DEF RoundInv
<1>4. ASSUME NEW r \in Run, delete_inactive_users(r) PROVE RoundInv'
  BY <1>4, <1>0 DEF delete_inactive_users, start, RoundInv, TypeOK
<1>5. ASSUME NEW r \in Run, NEW d \in WARNING_INTERVALS, warn(r, d) \/ warn_fail(r, d)
      PROVE  RoundInv'
  <2>1. PICK told \in SUBSET User :
          /\ due' = [u \in User |-> IF u \in told THEN now + d ELSE due[u]]
          /\ manually' = IF r = Cron THEN manually \ told ELSE manually \union told
    BY <1>5, Told
  <2>2. UNCHANGED <<now, last_login_at>> /\ run[r].pc = "warn"
    BY <1>5 DEF warn, warn_fail
  <2>3. run'[Cron].pc # "idle" => Multiple(now)
    BY <1>0, <1>5 DEF warn, warn_fail, TypeOK, IdleRun, RunState, RoundInv
  <2>4. r = Cron => Multiple(now + d)
    BY <1>0, <2>2, MultipleSum, InactiveAssumption DEF OnTime, RoundInv
  <2>5. ASSUME NEW u \in User
        PROVE  due'[u] <= last_login_at[u] \/ u \in manually' \/ Multiple(due'[u])
    <3>1. CASE u \in told
      BY <2>1, <2>4, <3>1
    <3>2. CASE u \notin told
      BY <2>1, <3>2 DEF RoundInv
    <3> QED
      BY <3>1, <3>2
  <2> QED
    BY <2>2, <2>3, <2>5 DEF RoundInv
<1>6. ASSUME NEW r \in Run, \/ warn_end(r) \/ select_users_to_delete(r)
                            \/ delete_users(r) \/ delete_fail(r)
      PROVE  RoundInv'
  <2>1. UNCHANGED <<now, last_login_at, due, manually>>
    BY <1>6 DEF warn_end, select_users_to_delete, delete_users, delete_fail
  <2>2. run'[Cron].pc # "idle" => run[Cron].pc # "idle"
    BY <1>0, <1>6 DEF warn_end, select_users_to_delete, delete_users, delete_fail, TypeOK, IdleRun,
                      RunState
  <2> QED
    BY <2>1, <2>2 DEF RoundInv
<1>9. CASE tick
  <2>1. run'[Cron].pc = "idle" /\ UNCHANGED <<last_login_at, due, manually>>
    BY <1>0, <1>9 DEF tick
  <2> QED
    BY <2>1 DEF RoundInv
<1>10. CASE UNCHANGED vars
  BY <1>10 DEF vars, RoundInv
<1> QED
  BY <1>1, <1>2, <1>3, <1>4, <1>5, <1>6, <1>9, <1>10 DEF Next

\* NotSoonerThanTold: if the scheduled runs are each on their day, whoever is deleted had at least the
\* days the last message promised, unless a run on demand sent it or does the deletion; and then
\* less than a window is missing.
THEOREM NotSoonerThanToldHolds == OnTime => (Spec => NotSoonerThanTold)
<1> SUFFICES ASSUME OnTime PROVE Spec => NotSoonerThanTold
  OBVIOUS
<1>1. TypeOK /\ ScheduleInv /\ PromiseInv /\ RoundInv /\ [Next]_vars
        => (TypeOK /\ ScheduleInv /\ PromiseInv /\ RoundInv)'
  BY StepType, ScheduleStep, PromiseStep, RoundStep
<1>2. TypeOK /\ ScheduleInv /\ PromiseInv /\ RoundInv /\ [Next]_vars
        => [\A r \in Run : delete_users(r) =>
              \A u \in run[r].doomed \intersect users : due[u] > now =>
                /\ due[u] < now + Window
                /\ r # Cron \/ u \in manually]_vars
  <2> SUFFICES ASSUME TypeOK, ScheduleInv, PromiseInv, RoundInv, NEW r \in Run, delete_users(r),
                      NEW u \in run[r].doomed \intersect users, due[u] > now,
                      r = Cron, u \notin manually
               PROVE  FALSE
    BY Deleted
  <2>1. /\ u \in User /\ now \in Nat /\ due[u] \in Nat /\ last_login_at[u] \in Nat
        /\ last_login_at[u] <= now
    BY DEF TypeOK, ScheduleInv
  <2>2. Multiple(now)
    BY DEF delete_users, RoundInv
  <2>3. Multiple(due[u])
    BY <2>1 DEF RoundInv
  <2>4. due[u] < now + Period
    BY <2>1, Deleted, InactiveAssumption DEF OnTime
  <2> QED
    BY <2>1, <2>2, <2>3, <2>4, MultipleBelow
<1>3. Init => TypeOK /\ ScheduleInv /\ PromiseInv /\ RoundInv
  BY InitType, ScheduleInit, PromiseInit, RoundInit
<1> QED
  BY <1>1, <1>2, <1>3, PTL DEF Spec, NotSoonerThanTold

-----------------------------------------------------------------------------
(***************************************************************************)
(* Some warning.  Three warnings one window apart: their windows together  *)
(* are three windows long, and a round of warnings falls into them.        *)
(***************************************************************************)
WindowsCover ==
  /\ Token
  /\ WARNING_INTERVALS = {Window, 2 * Window, 3 * Window}
  /\ MaxGap <= 3 * Window

SomeInv ==
  \A u \in users :
    /\ warned_at - last_login_at[u] > THRESHOLD - 3 * Window => Tried(u) # {}
    /\ \A r \in Run, d \in WARNING_INTERVALS :
         /\ run[r].pc = "warn" /\ d \notin run[r].levels
         /\ Age(u) > THRESHOLD - d /\ Age(u) <= THRESHOLD - d + Window
         => Tried(u) # {}

LEMMA SomeInit == WindowsCover /\ Init => SomeInv
<1> SUFFICES ASSUME WindowsCover, Init PROVE SomeInv
  OBVIOUS
<1>1. 3 * Window \in 0..THRESHOLD
  BY InactiveAssumption DEF WindowsCover
<1>2. \A u \in users : last_login_at[u] = 0
  BY DEF Init
<1>3. warned_at = 0 /\ \A r \in Run : run[r].pc = "idle"
  BY DEF Init, IdleRun
<1>4. ~(0 - 0 > THRESHOLD - 3 * Window)
  BY <1>1, InactiveAssumption
<1> QED
  BY <1>2, <1>3, <1>4 DEF SomeInv

LEMMA SomeStep == WindowsCover /\ TypeOK /\ ScheduleInv /\ SomeInv /\ [Next]_vars => SomeInv'
<1> SUFFICES ASSUME WindowsCover, TypeOK, ScheduleInv, SomeInv, [Next]_vars PROVE SomeInv'
  OBVIOUS
<1>0. users \subseteq User /\ \A u \in User : last_login_at[u] \in Nat /\ last_login_at[u] <= now
  BY DEF TypeOK, ScheduleInv
<1> USE DEF Tried, messages
<1>1. ASSUME NEW u \in User, login(u) PROVE SomeInv'
  <2>1. \A v \in users' : v # u =>
           v \in users /\ last_login_at'[v] = last_login_at[v] /\ Tried(v)' = Tried(v)
    BY <1>1, <1>0 DEF login, TypeOK
  <2>2. last_login_at'[u] = now /\ now' = now /\ warned_at' = warned_at /\ run' = run
    BY <1>1 DEF login, TypeOK
  <2>3. \A d \in WARNING_INTERVALS : THRESHOLD - d >= 0 /\ THRESHOLD - d \in Int
    BY InactiveAssumption
  <2>4. warned_at - now <= 0 /\ now - now = 0 /\ now \in Nat /\ warned_at \in Nat
    BY DEF ScheduleInv, TypeOK
  <2>5. ASSUME NEW v \in users'
        PROVE  /\ warned_at' - last_login_at'[v] > THRESHOLD - 3 * Window => Tried(v)' # {}
               /\ \A r \in Run, d \in WARNING_INTERVALS :
                    /\ run'[r].pc = "warn" /\ d \notin run'[r].levels
                    /\ now' - last_login_at'[v] > THRESHOLD - d
                    /\ now' - last_login_at'[v] <= THRESHOLD - d + Window
                    => Tried(v)' # {}
    <3>1. CASE v = u
      <4>1. 3 * Window \in WARNING_INTERVALS
        BY DEF WindowsCover
      <4> QED
        BY <3>1, <4>1, <2>2, <2>3, <2>4
    <3>2. CASE v # u
      BY <3>2, <2>1, <2>2 DEF SomeInv, Age
    <3> QED
      BY <3>1, <3>2
  <2> QED
    BY <2>5 DEF SomeInv, Age
<1>2. ASSUME NEW u \in User, delete_user_by_identifier(u) PROVE SomeInv'
  BY <1>2 DEF delete_user_by_identifier, SomeInv, Age
<1>3. ASSUME NEW r \in Run, start(r), UNCHANGED <<users, last_login_at, messages, now, warned_at>>
      PROVE  SomeInv'
  BY <1>3 DEF start, SomeInv, Age, TypeOK
<1>5. ASSUME NEW r \in Run, NEW d \in WARNING_INTERVALS, warn(r, d) PROVE SomeInv'
  <2>1. UNCHANGED <<users, last_login_at, now, warned_at>> /\ run[r].at = now
    BY <1>5 DEF warn, ScheduleInv
  <2>2. \A q \in Run : /\ run'[q].pc = run[q].pc
                       /\ run'[q].levels = IF q = r THEN run[r].levels \ {d} ELSE run[q].levels
    BY <1>5 DEF warn, TypeOK, RunState
  <2>3. \A u \in users : Tried(u) \subseteq Tried(u)'
    BY <1>5, <1>0, TriedGrows DEF warn
  <2>4. \A u \in users_to_warn(r, d) : u \in users => d \in Tried(u)'
    BY <1>5, <1>0, TriedGrows DEF warn, to_tell, WindowsCover
  <2>5. ASSUME NEW u \in users, Age(u) > THRESHOLD - d, Age(u) <= THRESHOLD - d + Window
        PROVE  Tried(u)' # {}
    <3>1. u \in users_to_warn(r, d)
      BY <2>1, <2>5, <1>0, InactiveAssumption DEF users_to_warn, Age, TypeOK
    <3> QED
      BY <3>1, <2>4
  <2>6. run[r].pc = "warn"
    BY <1>5 DEF warn
  <2>7. ASSUME NEW u \in users
        PROVE  warned_at' - last_login_at'[u] > THRESHOLD - 3 * Window => Tried(u)' # {}
    BY <2>1, <2>3 DEF SomeInv
  <2>8. ASSUME NEW u \in users, NEW q \in Run, NEW e \in WARNING_INTERVALS,
               run'[q].pc = "warn", e \notin run'[q].levels,
               Age(u) > THRESHOLD - e, Age(u) <= THRESHOLD - e + Window
        PROVE  Tried(u)' # {}
    <3>1. CASE q = r /\ e = d
      BY <3>1, <2>5, <2>8
    <3>2. CASE ~(q = r /\ e = d)
      <4>1. run[q].pc = "warn" /\ e \notin run[q].levels
        BY <3>2, <2>2, <2>8
      <4> QED
        BY <4>1, <2>8, <2>3 DEF SomeInv
    <3> QED
      BY <3>1, <3>2
  <2> QED
    BY <2>1, <2>7, <2>8 DEF SomeInv, Age
<1>6. ASSUME NEW r \in Run, warn_end(r) PROVE SomeInv'
  <2>1. run[r].pc = "warn" /\ run[r].levels = {} /\ warned_at' = now
    BY <1>6 DEF warn_end, ScheduleInv
  <2>2. UNCHANGED <<users, last_login_at, messages, now>>
    BY <1>6 DEF warn_end
  <2>3. \A q \in Run : run'[q].pc = "warn" => run[q].pc = "warn" /\ run'[q] = run[q]
    BY <1>6 DEF warn_end, TypeOK, RunState
  <2>4. ASSUME NEW u \in users, Age(u) > THRESHOLD - 3 * Window PROVE Tried(u) # {}
    <3>1. /\ now \in Nat /\ last_login_at[u] \in Nat /\ warned_at \in Nat
          /\ Window \in Nat /\ THRESHOLD \in Nat /\ MaxGap \in Nat
      BY <1>0, InactiveAssumption DEF TypeOK
    <3>2. now <= warned_at + MaxGap /\ MaxGap <= 3 * Window
      BY DEF ScheduleInv, WindowsCover
    <3>3. CASE Age(u) > THRESHOLD
      <4>1. warned_at - last_login_at[u] > THRESHOLD - 3 * Window
        BY <3>1, <3>2, <3>3 DEF Age
      <4> QED
        BY <4>1 DEF SomeInv
    <3>4. CASE Age(u) <= THRESHOLD
      <4>1. PICK d \in WARNING_INTERVALS :
               Age(u) > THRESHOLD - d /\ Age(u) <= THRESHOLD - d + Window
        BY <2>4, <3>1, <3>4 DEF Age, WindowsCover
      <4> QED
        BY <4>1, <2>1 DEF SomeInv
    <3> QED
      BY <3>1, <3>3, <3>4 DEF Age
  <2> QED
    BY <2>1, <2>2, <2>3, <2>4 DEF SomeInv, Age
<1>7. ASSUME NEW r \in Run, NEW d \in WARNING_INTERVALS, warn_fail(r, d) PROVE SomeInv'
  <2>1. UNCHANGED <<users, last_login_at, now, warned_at>>
    BY <1>7 DEF warn_fail
  <2>2. \A q \in Run : run'[q].pc = "warn" => run'[q] = run[q]
    BY <1>7 DEF warn_fail, TypeOK, IdleRun
  <2>3. \A u \in users : Tried(u) \subseteq Tried(u)'
    BY <1>7, <1>0, TriedGrows DEF warn_fail
  <2> QED
    BY <2>1, <2>2, <2>3 DEF SomeInv, Age
<1>8. ASSUME NEW r \in Run,
             select_users_to_delete(r) \/ delete_users(r) \/ delete_fail(r) PROVE SomeInv'
  <2>1. UNCHANGED <<last_login_at, messages, now, warned_at>> /\ users' \subseteq users
    BY <1>8 DEF select_users_to_delete, delete_users, delete_fail
  <2>2. \A q \in Run : run'[q].pc = "warn" => run'[q] = run[q]
    BY <1>8 DEF select_users_to_delete, delete_users, delete_fail, TypeOK, IdleRun, RunState
  <2> QED
    BY <2>1, <2>2 DEF SomeInv, Age
<1>11. CASE tick
  BY <1>11 DEF tick, SomeInv
<1>12. CASE UNCHANGED vars
  BY <1>12 DEF vars, SomeInv, Age
<1> QED
  BY <1>1, <1>2, <1>3, <1>5, <1>6, <1>7, <1>8, <1>11, <1>12, InactiveAssumption
  DEF Next, cron_start, delete_inactive_users

\* As long as runs that send their warnings are no further apart than the three windows
\* together (21 days: two weekly runs in a row may be lost), whoever a run selects for
\* deletion was sent some warning since the last login, or OSM refused one.
THEOREM SomeWarningSentHolds == WindowsCover => (Spec => SomeWarningSent)
<1> SUFFICES ASSUME WindowsCover PROVE Spec => SomeWarningSent
  OBVIOUS
<1>1. TypeOK /\ ScheduleInv /\ SomeInv /\ [Next]_vars => (TypeOK /\ ScheduleInv /\ SomeInv)'
  BY StepType, ScheduleStep, SomeStep
<1>2. TypeOK /\ ScheduleInv /\ SomeInv /\ [Next]_vars
        => [\A r \in Run : select_users_to_delete(r) =>
              \A u \in users_to_delete(r) : Tried(u) # {}]_vars
  <2> SUFFICES ASSUME TypeOK, ScheduleInv, SomeInv,
                      NEW r \in Run, select_users_to_delete(r), NEW u \in users_to_delete(r)
               PROVE  Tried(u) # {}
    OBVIOUS
  <2>1. run[r].at = now /\ warned_at = now
    BY DEF select_users_to_delete, ScheduleInv
  <2>2. u \in users /\ now - last_login_at[u] > THRESHOLD - 3 * Window
    BY <2>1, InactiveAssumption DEF users_to_delete, TypeOK
  <2> QED
    BY <2>1, <2>2 DEF SomeInv
<1>3. Init => TypeOK /\ ScheduleInv /\ SomeInv
  BY InitType, ScheduleInit, SomeInit
<1> QED
  BY <1>1, <1>2, <1>3, PTL DEF Spec, SomeWarningSent

-----------------------------------------------------------------------------
(* The accounts behave as InactiveUsers says. *)

LEMMA AccountsStep == OrgNext => [Next]_vars
<1> SUFFICES ASSUME OrgNext PROVE [Next]_vars
  OBVIOUS
<1>1. CASE accounts
  BY <1>1 DEF accounts
<1>2. CASE init_admin_org
  <2>1. CASE LocalAdmin \in users
    BY <1>2, <2>1 DEF init_admin_org
  <2>2. CASE LocalAdmin \notin users
    BY <1>2, <2>2, OrganisationsAssumption DEF init_admin_org, Next
  <2> QED
    BY <2>1, <2>2
<1>3. ASSUME NEW u \in User, NEW n \in Name, NEW logo \in BOOLEAN, create_organisation(u, n, logo)
      PROVE  UNCHANGED vars
  BY <1>3 DEF create_organisation
<1>4. ASSUME NEW o \in Org,
             \/ approve_organisation(o) \/ delete_org(o) \/ delete_unapproved_org(o)
             \/ \E u \in User : add_new_organisation_admin(o, u)
             \/ \E c \in Change : update_organisation(o, c)
      PROVE  UNCHANGED vars
  BY <1>4 DEF approve_organisation, delete_org, delete_unapproved_org, DbOrganisation_delete,
              add_new_organisation_admin, update_organisation
<1>5. ASSUME NEW q \in requests,
             \/ upload_logo(q) \/ update_commit(q) \/ request_fails(q)
             \/ delete_all_objs_under_prefix(q) \/ delete_commit(q)
      PROVE  UNCHANGED vars
  BY <1>5 DEF upload_logo, update_commit, request_fails, delete_all_objs_under_prefix,
              delete_commit
<1> QED
  BY <1>1, <1>2, <1>3, <1>4, <1>5 DEF OrgNext

\* Whatever is proved of InactiveUsers holds of the accounts of an organisation's managers as
\* well: organisations and restarts only do to them what a login does.
THEOREM ImplementsAccounts == OrgSpec => Spec
<1>1. OrgInit => Init
  BY DEF OrgInit
<1>2. [OrgNext]_<<vars, orgVars>> => [Next]_vars
  <2>1. CASE OrgNext
    BY <2>1, AccountsStep
  <2>2. CASE UNCHANGED <<vars, orgVars>>
    BY <2>2
  <2> QED
    BY <2>1, <2>2
<1> QED
  BY <1>1, <1>2, PTL DEF OrgSpec, Spec
\* In particular: every account selected for deletion was sent all warnings but refused ones, manager
\* or not.
COROLLARY ManagersAreWarned == Weekly => (OrgSpec => AllWarningsSent)
BY ImplementsAccounts, AllWarningsSentHolds

-----------------------------------------------------------------------------
(* Type correctness of Organisations. *)

LEMMA KnownRequest ==
  ASSUME OrgTypeOK, NEW q \in requests
  PROVE  /\ q.org \in Org
         /\ q.kind = "update" => /\ q.change \in Change
                                /\ q = [kind |-> "update", org |-> q.org, change |-> q.change,
                                        step |-> q.step]
                                /\ q.step \in {"checked", "uploaded"}
         /\ q.kind = "delete" => /\ q = [kind |-> "delete", org |-> q.org, step |-> q.step]
                                /\ q.step \in {"deleted", "emptied"}
BY DEF OrgTypeOK, Request

LEMMA NextStep ==
  ASSUME OrgTypeOK, NEW q \in requests, NEW step, GoesOn(q, step),
         \/ q.kind = "update" /\ step = "uploaded"
         \/ q.kind = "delete" /\ step = "emptied"
  PROVE  \E r \in Request : /\ r.kind = q.kind /\ r.org = q.org /\ r.step = step
                           /\ requests' = (requests \ {q}) \union {r}
<1> DEFINE r == [q EXCEPT !.step = step]
<1>1. requests' = (requests \ {q}) \union {r}
  BY DEF GoesOn
<1>2. CASE q.kind = "update" /\ step = "uploaded"
  <2>1. r = [kind |-> "update", org |-> q.org, change |-> q.change, step |-> "uploaded"]
    BY <1>2, KnownRequest
  <2> QED
    BY <1>1, <1>2, <2>1, KnownRequest DEF Request
<1>3. CASE q.kind = "delete" /\ step = "emptied"
  <2>1. r = [kind |-> "delete", org |-> q.org, step |-> "emptied"]
    BY <1>3, KnownRequest
  <2> QED
    BY <1>1, <1>3, <2>1, KnownRequest DEF Request
<1> QED
  BY <1>2, <1>3

LEMMA ChangedRow ==
  ASSUME NEW row \in Row, NEW c \in Change
  PROVE  /\ Changed(row, c) \in Row
         /\ Changed(row, c).approved = row.approved
         /\ Changed(row, c).logo <=> row.logo \/ c.logo
<1>1. c \in [name : Name \union {None}, created_by : User \union {None}, logo : BOOLEAN]
  BY OrganisationsAssumption
<1> QED
  BY <1>1 DEF Row, Changed

OrgTyped ==
  /\ organisations \in [Org -> Row \union {None}]
  /\ organisation_managers \subseteq Org \X User
  /\ nextval \in 0..MaxOrgs
  /\ logos \subseteq Org
  /\ requests \subseteq Request
  /\ orphaned \subseteq Org /\ lost \subseteq Org

LEMMA UpdateType ==
  ASSUME OrgTypeOK, NEW o \in Org, NEW c \in Change, DbOrganisation_update(o, c)
  PROVE  /\ organisations' \in [Org -> Row \union {None}]
         /\ \A p \in Org : organisations'[p] = None <=> organisations[p] = None
         /\ \A p \in Org : p # o => organisations'[p] = organisations[p]
         /\ organisations[o] \in Row /\ organisations'[o] = Changed(organisations[o], c)
<1>1. organisations[o] \in Row
  BY DEF DbOrganisation_update, OrgTypeOK
<1>2. Changed(organisations[o], c) \in Row
  BY <1>1, ChangedRow
<1>3. organisations' = [organisations EXCEPT ![o] = Changed(organisations[o], c)]
  BY DEF DbOrganisation_update
<1> QED
  BY <1>1, <1>2, <1>3, OrganisationsAssumption DEF DbOrganisation_update, OrgTypeOK

LEMMA OrgStepType == OrgTypeOK /\ OrgNext => OrgTyped'
<1> SUFFICES ASSUME OrgTypeOK, OrgNext PROVE OrgTyped'
  OBVIOUS
<1> USE DEF OrgTyped
<1>1. CASE accounts
  BY <1>1 DEF accounts, DbUser_delete, OrgTypeOK
<1>2. CASE init_admin_org
  <2>1. [name |-> HOTOSM, approved |-> TRUE, created_by |-> LocalAdmin, logo |-> TRUE] \in Row
    BY OrganisationsAssumption DEF Row
  <2>2. UNCHANGED <<requests, orphaned, lost>>
    BY <1>2 DEF init_admin_org
  <2>3. CASE UNCHANGED <<nextval, logos, organisations, organisation_managers>>
    BY <2>2, <2>3 DEF OrgTypeOK
  <2>4. CASE ~UNCHANGED <<nextval, logos, organisations, organisation_managers>>
    <3> DEFINE o == nextval + 1
    <3>1. /\ o \in Org /\ nextval' = o /\ logos' = logos \union {o}
          /\ organisations' = [organisations EXCEPT ![o] =
               [name |-> HOTOSM, approved |-> TRUE, created_by |-> LocalAdmin, logo |-> TRUE]]
          /\ organisation_managers' = organisation_managers \union {<<o, LocalAdmin>>}
      BY <1>2, <2>4 DEF init_admin_org
    <3>2. o \in 0..MaxOrgs
      BY <3>1, OrganisationsAssumption DEF Org
    <3> HIDE DEF o
    <3> QED
      BY <3>1, <3>2, <2>1, <2>2, OrganisationsAssumption DEF OrgTypeOK
  <2> QED
    BY <2>3, <2>4
<1>3. ASSUME NEW u \in User, NEW n \in Name, NEW logo \in BOOLEAN, create_organisation(u, n, logo)
      PROVE  OrgTyped'
  <2> DEFINE o == nextval + 1
  <2>1. [name |-> n, approved |-> FALSE, created_by |-> u, logo |-> logo] \in Row
    BY DEF Row
  <2>2. /\ o \in Org /\ nextval' = o /\ logos' \subseteq logos \union {o}
        /\ organisations' = [organisations EXCEPT ![o] =
             [name |-> n, approved |-> FALSE, created_by |-> u, logo |-> logo]]
        /\ UNCHANGED <<organisation_managers, requests, orphaned, lost>>
    BY <1>3 DEF create_organisation
  <2>3. o \in 0..MaxOrgs
    BY <2>2, OrganisationsAssumption DEF Org
  <2> HIDE DEF o
  <2> QED
    BY <2>1, <2>2, <2>3 DEF OrgTypeOK
<1>4. ASSUME NEW o \in Org, approve_organisation(o) PROVE OrgTyped'
  <2>1. organisations[o] \in Row /\ organisations[o].created_by \in User
    BY <1>4 DEF approve_organisation, OrgTypeOK, Row
  <2>2. [organisations[o] EXCEPT !.approved = TRUE] \in Row
    BY <2>1 DEF Row
  <2>3. organisations' = [organisations EXCEPT ![o] = [organisations[o] EXCEPT !.approved = TRUE]]
    BY <1>4 DEF approve_organisation
  <2>4. organisations' \in [Org -> Row \union {None}]
    BY <2>2, <2>3 DEF OrgTypeOK
  <2> QED
    BY <1>4, <2>1, <2>4 DEF approve_organisation, OrgTypeOK
<1>5. ASSUME NEW o \in Org, DbOrganisation_delete(o) PROVE OrgTyped'
  BY <1>5 DEF DbOrganisation_delete, Begins, OrgTypeOK, Request
<1>6. ASSUME NEW o \in Org, NEW u \in User, add_new_organisation_admin(o, u) PROVE OrgTyped'
  BY <1>6 DEF add_new_organisation_admin, OrgTypeOK
<1>7. ASSUME NEW o \in Org, NEW c \in Change, update_organisation(o, c) PROVE OrgTyped'
  <2>1. CASE ~c.logo
    BY <1>7, <2>1, UpdateType DEF update_organisation, OrgTypeOK
  <2>2. CASE c.logo
    BY <1>7, <2>2 DEF update_organisation, Begins, OrgTypeOK, Request
  <2> QED
    BY <2>1, <2>2
<1>8. ASSUME NEW q \in requests, upload_logo(q) PROVE OrgTyped'
  <2>1. requests' \subseteq Request
    BY <1>8, NextStep DEF upload_logo, OrgTypeOK
  <2> QED
    BY <1>8, <2>1, KnownRequest DEF upload_logo, OrgTypeOK
<1>9. ASSUME NEW q \in requests, update_commit(q) PROVE OrgTyped'
  BY <1>9, KnownRequest, UpdateType DEF update_commit, Ends, OrgTypeOK
<1>10. ASSUME NEW q \in requests, request_fails(q) PROVE OrgTyped'
  BY <1>10, KnownRequest DEF request_fails, Ends, OrgTypeOK
<1>11. ASSUME NEW q \in requests, delete_all_objs_under_prefix(q) PROVE OrgTyped'
  <2>1. requests' \subseteq Request
    BY <1>11, NextStep DEF delete_all_objs_under_prefix, OrgTypeOK
  <2> QED
    BY <1>11, <2>1, KnownRequest DEF delete_all_objs_under_prefix, OrgTypeOK
<1>12. ASSUME NEW q \in requests, delete_commit(q) PROVE OrgTyped'
  BY <1>12, KnownRequest DEF delete_commit, Ends, OrgTypeOK
<1> QED
  BY <1>1, <1>2, <1>3, <1>4, <1>5, <1>6, <1>7, <1>8, <1>9, <1>10, <1>11, <1>12
  DEF OrgNext, delete_org, delete_unapproved_org

LEMMA OrgInitType == OrgInit => OrgTypeOK
BY InitType, OrganisationsAssumption DEF OrgInit, OrgTypeOK

LEMMA OrgStep == OrgTypeOK /\ [OrgNext]_<<vars, orgVars>> => OrgTypeOK'
<1> SUFFICES ASSUME OrgTypeOK, [OrgNext]_<<vars, orgVars>> PROVE OrgTypeOK'
  OBVIOUS
<1>1. CASE OrgNext
  <2>1. TypeOK'
    BY <1>1, AccountsStep, StepType DEF OrgTypeOK
  <2> QED
    BY <1>1, <2>1, OrgStepType DEF OrgTyped, OrgTypeOK
<1>2. CASE UNCHANGED <<vars, orgVars>>
  <2>1. TypeOK'
    BY <1>2, StepType DEF OrgTypeOK
  <2> QED
    BY <1>2, <2>1 DEF orgVars, OrgTypeOK
<1> QED
  BY <1>1, <1>2

\* Every state of the organisations and of the accounts has its type.
THEOREM OrgTypeCorrect == OrgSpec => []OrgTypeOK
BY OrgInitType, OrgStep, PTL DEF OrgSpec

-----------------------------------------------------------------------------
(***************************************************************************)
(* Managers and logos.  An id that has not been drawn has nothing yet; a   *)
(* logo on its way to a row is in S3 before it is in the row; and what a   *)
(* deletion has emptied is either deleted or remembered in lost.           *)
(***************************************************************************)
Emptied(o) == \E q \in requests : q.kind = "delete" /\ q.org = o /\ q.step = "emptied"

HasLogo(o) == o \in logos \/ o \in lost \/ Emptied(o)

Drawn ==
  /\ \A o \in Org : organisations[o] # None => o <= nextval
  /\ \A q \in requests : q.org <= nextval

LogoInv ==
  /\ \A o \in Org : organisations[o] # None /\ organisations[o].logo => HasLogo(o)
  /\ \A q \in requests : /\ q.kind = "update" /\ q.step = "uploaded"
                         /\ organisations[q.org] # None
                         => HasLogo(q.org)

OrgInv == Drawn /\ ManagersSound /\ LogoInv

LEMMA OrgInvStep == OrgTypeOK /\ OrgInv /\ OrgNext => OrgInv'
<1> SUFFICES ASSUME OrgTypeOK, OrgInv, OrgNext PROVE OrgInv'
  OBVIOUS
<1> USE DEF OrgInv, HasLogo, Emptied, ManagersOf
<1>1. CASE accounts
  BY <1>1 DEF accounts, DbUser_delete, OrgTypeOK, Drawn, ManagersSound, LogoInv
<1>2. ASSUME NEW row \in Row, NEW m \in SUBSET User, nextval + 1 \in Org,
             nextval' = nextval + 1,
             organisations' = [organisations EXCEPT ![nextval + 1] = row],
             organisation_managers' = organisation_managers \union ({nextval + 1} \X m),
             row.approved <=> m # {}, m \subseteq users', users \subseteq users',
             row.logo => nextval + 1 \in logos', logos \subseteq logos',
             UNCHANGED <<requests, orphaned, lost>>
      PROVE  OrgInv'
  <2> DEFINE o == nextval + 1
  <2>1. nextval \in Nat /\ o \in Nat /\ Org \subseteq Nat
    BY OrganisationsAssumption DEF OrgTypeOK, Org
  <2>2. organisations[o] = None /\ \A q \in requests : q.org # o
    BY <1>2, <2>1 DEF Drawn
  <2>3. organisations'[o] = row /\ \A p \in Org : p # o => organisations'[p] = organisations[p]
    BY <1>2 DEF OrgTypeOK
  <2>4. Drawn'
    BY <1>2, <2>1, <2>3, KnownRequest DEF Drawn, OrgTypeOK
  <2>5. \A n \in organisation_managers : n[1] \in Org /\ n[1] # o
    BY <2>2 DEF ManagersSound, OrgTypeOK
  <2>6. row # None
    BY OrganisationsAssumption
  <2>7. ManagersSound'
    <3>1. ASSUME NEW n \in organisation_managers'
          PROVE  n[2] \in users' /\ organisations'[n[1]] # None /\ organisations'[n[1]].approved
      <4>1. CASE n \in organisation_managers
        BY <1>2, <4>1, <2>3, <2>5 DEF ManagersSound
      <4>2. CASE n \in {o} \X m
        BY <1>2, <4>2, <2>3, <2>6
      <4> QED
        BY <1>2, <4>1, <4>2
    <3>2. ASSUME NEW p \in Org, organisations'[p] # None, organisations'[p].approved,
                 {n \in organisation_managers' : n[1] = p} = {}
          PROVE  p \in orphaned'
      <4>1. CASE p = o
        <5>1. PICK u \in m : TRUE
          BY <1>2, <2>3, <3>2, <4>1
        <5>2. <<o, u>> \in organisation_managers' /\ <<o, u>>[1] = p
          BY <1>2, <4>1
        <5> QED
          BY <5>2, <3>2
      <4>2. CASE p # o
        BY <1>2, <2>3, <3>2, <4>2 DEF ManagersSound
      <4> QED
        BY <4>1, <4>2
    <3> QED
      BY <3>1, <3>2 DEF ManagersSound
  <2>8. LogoInv'
    BY <1>2, <2>2, <2>3, KnownRequest DEF LogoInv
  <2> QED
    BY <2>4, <2>7, <2>8
<1>3. CASE init_admin_org
  <2>1. users \subseteq users' /\ LocalAdmin \in users'
    BY <1>3 DEF init_admin_org, vars, login
  <2>2. CASE UNCHANGED <<nextval, logos, organisations, organisation_managers>>
    BY <1>3, <2>1, <2>2 DEF init_admin_org, Drawn, ManagersSound, LogoInv
  <2>3. CASE ~UNCHANGED <<nextval, logos, organisations, organisation_managers>>
    <3> DEFINE row == [name |-> HOTOSM, approved |-> TRUE, created_by |-> LocalAdmin, logo |-> TRUE]
    <3>1. row \in Row /\ row.approved /\ row.logo
      BY OrganisationsAssumption DEF Row
    <3>2. /\ nextval + 1 \in Org /\ nextval' = nextval + 1
          /\ logos' = logos \union {nextval + 1}
          /\ organisations' = [organisations EXCEPT ![nextval + 1] = row]
          /\ organisation_managers' = organisation_managers \union {<<nextval + 1, LocalAdmin>>}
          /\ UNCHANGED <<requests, orphaned, lost>>
      BY <1>3, <2>3 DEF init_admin_org
    <3>3. {<<nextval + 1, LocalAdmin>>} = {nextval + 1} \X {LocalAdmin}
      OBVIOUS
    <3>4. {LocalAdmin} \in SUBSET User /\ {LocalAdmin} # {} /\ {LocalAdmin} \subseteq users'
      BY <2>1, OrganisationsAssumption
    <3>5. nextval + 1 \in logos' /\ logos \subseteq logos'
      BY <3>2
    <3>6. organisation_managers' = organisation_managers \union ({nextval + 1} \X {LocalAdmin})
      BY <3>2, <3>3
    <3>7. row.approved <=> {LocalAdmin} # {}
      BY <3>1, <3>4
    <3> HIDE DEF row
    <3> QED
      BY <1>2, <2>1, <3>1, <3>2, <3>4, <3>5, <3>6, <3>7
  <2> QED
    BY <2>2, <2>3
<1>4. ASSUME NEW u \in User, NEW n \in Name, NEW logo \in BOOLEAN, create_organisation(u, n, logo)
      PROVE  OrgInv'
  <2> DEFINE row == [name |-> n, approved |-> FALSE, created_by |-> u, logo |-> logo]
  <2>1. row \in Row /\ ~row.approved /\ row.logo = logo
    BY DEF Row
  <2>2. /\ nextval + 1 \in Org /\ nextval' = nextval + 1
        /\ logos' = IF logo THEN logos \union {nextval + 1} ELSE logos
        /\ organisations' = [organisations EXCEPT ![nextval + 1] = row]
        /\ UNCHANGED <<organisation_managers, requests, orphaned, lost>>
        /\ users' = users
    BY <1>4 DEF create_organisation, vars
  <2>3. organisation_managers' = organisation_managers \union ({nextval + 1} \X {})
    BY <2>2
  <2> HIDE DEF row
  <2> QED
    BY <1>2, <2>1, <2>2, <2>3
<1>5. ASSUME NEW o \in Org, approve_organisation(o) PROVE OrgInv'
  <2>1. /\ organisations[o] \in Row /\ organisations[o] # None
        /\ organisations[o].created_by \in users
    BY <1>5 DEF approve_organisation, OrgTypeOK
  <2>2. /\ organisations' = [organisations EXCEPT ![o] = [organisations[o] EXCEPT !.approved = TRUE]]
        /\ organisation_managers' = organisation_managers \union {<<o, organisations[o].created_by>>}
        /\ UNCHANGED <<nextval, logos, requests, orphaned, lost>> /\ users' = users
    BY <1>5 DEF approve_organisation, vars
  <2>3. /\ [organisations[o] EXCEPT !.approved = TRUE] \in Row
        /\ [organisations[o] EXCEPT !.approved = TRUE].approved
        /\ [organisations[o] EXCEPT !.approved = TRUE].logo = organisations[o].logo
    BY <2>1 DEF Row
  <2>4. /\ organisations'[o] \in Row /\ organisations'[o].approved
        /\ organisations'[o].logo = organisations[o].logo
        /\ \A p \in Org : p # o => organisations'[p] = organisations[p]
    BY <2>2, <2>3 DEF OrgTypeOK
  <2>5. organisations'[o] # None
    BY <2>4, OrganisationsAssumption
  <2>6. <<o, organisations[o].created_by>>[1] = o
    OBVIOUS
  <2> HIDE DEF ManagersOf
  <2>7. Drawn'
    BY <2>1, <2>2, <2>4, <2>5 DEF Drawn
  <2>8. ManagersSound'
    <3>1. ASSUME NEW m \in organisation_managers'
          PROVE  m[2] \in users' /\ organisations'[m[1]] # None /\ organisations'[m[1]].approved
      <4>1. CASE m \in organisation_managers
        BY <2>2, <2>4, <2>5, <4>1 DEF ManagersSound, OrgTypeOK
      <4>2. CASE m = <<o, organisations[o].created_by>>
        BY <2>1, <2>2, <2>4, <2>5, <4>2
      <4> QED
        BY <2>2, <4>1, <4>2
    <3>2. ASSUME NEW p \in Org, organisations'[p] # None, organisations'[p].approved,
                 ManagersOf(p)' = {}
          PROVE  p \in orphaned'
      <4>1. p # o
        BY <2>2, <2>6, <3>2 DEF ManagersOf
      <4>2. ManagersOf(p) = {}
        BY <2>2, <3>2 DEF ManagersOf
      <4> QED
        BY <2>2, <2>4, <3>2, <4>1, <4>2 DEF ManagersSound
    <3> QED
      BY <3>1, <3>2 DEF ManagersSound
  <2>9. LogoInv'
    BY <2>1, <2>2, <2>4, KnownRequest DEF LogoInv
  <2> QED
    BY <2>7, <2>8, <2>9
<1>6. ASSUME NEW o \in Org, DbOrganisation_delete(o) PROVE OrgInv'
  <2>1. /\ requests' = requests \union {[kind |-> "delete", org |-> o, step |-> "deleted"]}
        /\ UNCHANGED <<organisations, organisation_managers, nextval, logos, orphaned, lost, users>>
        /\ organisations[o] # None
    BY <1>6 DEF DbOrganisation_delete, Begins, vars
  <2> QED
    BY <2>1 DEF Drawn, ManagersSound, LogoInv
<1>7. ASSUME NEW o \in Org, NEW u \in User, add_new_organisation_admin(o, u) PROVE OrgInv'
  <2>1. /\ UNCHANGED <<organisations, nextval, logos, requests, orphaned, lost, users>>
        /\ organisation_managers' = organisation_managers \union {<<o, u>>}
        /\ organisations[o] # None /\ organisations[o].approved /\ u \in users
    BY <1>7 DEF add_new_organisation_admin, get_organisation, vars
  <2> QED
    BY <2>1 DEF Drawn, ManagersSound, LogoInv
<1>8. ASSUME NEW o \in Org, NEW c \in Change, DbOrganisation_update(o, c),
             c.logo => HasLogo(o), requests' \subseteq requests,
             \A q \in requests : q.kind = "delete" => q \in requests',
             UNCHANGED <<organisation_managers, nextval, logos, orphaned, lost, users>>
      PROVE  OrgInv'
  <2>1. /\ \A p \in Org : organisations'[p] = None <=> organisations[p] = None
        /\ \A p \in Org : p # o => organisations'[p] = organisations[p]
        /\ organisations[o] \in Row /\ organisations'[o] = Changed(organisations[o], c)
        /\ organisations[o] # None
    BY <1>8, UpdateType DEF DbOrganisation_update
  <2>2. /\ organisations'[o].approved = organisations[o].approved
        /\ organisations'[o].logo <=> organisations[o].logo \/ c.logo
    BY <2>1, ChangedRow
  <2>3. Drawn'
    BY <1>8, <2>1 DEF Drawn
  <2>4. ManagersSound'
    BY <1>8, <2>1, <2>2 DEF ManagersSound, OrgTypeOK
  <2>5. LogoInv'
    BY <1>8, <2>1, <2>2, KnownRequest DEF LogoInv
  <2> QED
    BY <2>3, <2>4, <2>5
<1>9. ASSUME NEW o \in Org, NEW c \in Change, update_organisation(o, c) PROVE OrgInv'
  <2>1. CASE ~c.logo
    BY <1>8, <1>9, <2>1 DEF update_organisation, vars
  <2>2. CASE c.logo
    <3>1. /\ requests' = requests \union
                {[kind |-> "update", org |-> o, change |-> c, step |-> "checked"]}
          /\ UNCHANGED <<organisations, organisation_managers, nextval, logos, orphaned, lost, users>>
          /\ organisations[o] # None
      BY <1>9, <2>2 DEF update_organisation, get_organisation, Begins, vars
    <3> QED
      BY <3>1 DEF Drawn, ManagersSound, LogoInv
  <2> QED
    BY <2>1, <2>2
<1>10. ASSUME NEW q \in requests, upload_logo(q) PROVE OrgInv'
  <2>1. PICK r \in Request : /\ r.kind = "update" /\ r.org = q.org /\ r.step = "uploaded"
                             /\ requests' = (requests \ {q}) \union {r}
    BY <1>10, NextStep DEF upload_logo
  <2>2. /\ UNCHANGED <<organisations, organisation_managers, nextval, orphaned, lost, users>>
        /\ logos' = logos \union {q.org} /\ q.kind = "update"
    BY <1>10 DEF upload_logo, vars
  <2> QED
    BY <2>1, <2>2 DEF Drawn, ManagersSound, LogoInv
<1>11. ASSUME NEW q \in requests, update_commit(q) PROVE OrgInv'
  <2>1. /\ DbOrganisation_update(q.org, q.change) /\ requests' = requests \ {q}
        /\ q.kind = "update" /\ q.step = "uploaded"
        /\ UNCHANGED <<organisation_managers, nextval, logos, orphaned, lost, users>>
    BY <1>11 DEF update_commit, Ends, vars
  <2>2. HasLogo(q.org)
    BY <2>1 DEF LogoInv, DbOrganisation_update
  <2> QED
    BY <1>8, <2>1, <2>2, KnownRequest
<1>12. ASSUME NEW q \in requests, request_fails(q) PROVE OrgInv'
  <2>1. /\ requests' = requests \ {q}
        /\ lost' = IF q.kind = "delete" /\ q.step = "emptied" THEN lost \union {q.org} ELSE lost
        /\ UNCHANGED <<organisations, organisation_managers, nextval, logos, orphaned, users>>
    BY <1>12 DEF request_fails, Ends, vars
  <2>2. \A o \in Org : HasLogo(o) => HasLogo(o)'
    BY <2>1
  <2> QED
    BY <2>1, <2>2, KnownRequest DEF Drawn, ManagersSound, LogoInv
<1>13. ASSUME NEW q \in requests, delete_all_objs_under_prefix(q) PROVE OrgInv'
  <2>1. PICK r \in Request : /\ r.kind = "delete" /\ r.org = q.org /\ r.step = "emptied"
                             /\ requests' = (requests \ {q}) \union {r}
    BY <1>13, NextStep DEF delete_all_objs_under_prefix
  <2>2. /\ UNCHANGED <<organisations, organisation_managers, nextval, orphaned, lost, users>>
        /\ logos' \in {logos, logos \ {q.org}} /\ q.kind = "delete"
    BY <1>13 DEF delete_all_objs_under_prefix, vars
  <2>3. \A o \in Org : HasLogo(o) => HasLogo(o)'
    BY <2>1, <2>2
  <2> QED
    BY <2>1, <2>2, <2>3, KnownRequest DEF Drawn, ManagersSound, LogoInv
<1>14. ASSUME NEW q \in requests, delete_commit(q) PROVE OrgInv'
  <2>1. /\ requests' = requests \ {q} /\ q.kind = "delete"
        /\ organisations' = [organisations EXCEPT ![q.org] = None]
        /\ organisation_managers' = organisation_managers \ ManagersOf(q.org)
        /\ orphaned' = orphaned \ {q.org} /\ lost' = lost \ {q.org}
        /\ UNCHANGED <<nextval, logos, users>>
    BY <1>14 DEF delete_commit, Ends, vars
  <2>2. organisations'[q.org] = None /\ \A p \in Org : p # q.org => organisations'[p] = organisations[p]
    BY <2>1, KnownRequest DEF OrgTypeOK
  <2>3. \A o \in Org : o # q.org /\ HasLogo(o) => HasLogo(o)'
    BY <2>1
  <2>4. Drawn'
    BY <2>1, <2>2, KnownRequest DEF Drawn
  <2>5. ManagersSound'
    BY <2>1, <2>2 DEF ManagersSound, OrgTypeOK
  <2>6. LogoInv'
    BY <2>1, <2>2, <2>3, KnownRequest DEF LogoInv
  <2> QED
    BY <2>4, <2>5, <2>6
<1> QED
  BY <1>1, <1>3, <1>4, <1>5, <1>6, <1>7, <1>9, <1>10, <1>11, <1>12, <1>13, <1>14
  DEF OrgNext, delete_org, delete_unapproved_org

LEMMA OrgInvInit == OrgInit => OrgInv
BY DEF OrgInit, OrgInv, Drawn, ManagersSound, LogoInv

\* A manager has an account and an approved organisation, and an approved organisation a
\* manager unless the last one went with an account; the logo a row names is in S3 unless a
\* deletion has got to it.
THEOREM OrgSoundHolds == OrgSpec => []OrgSound
<1>1. OrgTypeOK /\ OrgInv /\ [OrgNext]_<<vars, orgVars>> => OrgInv'
  <2> SUFFICES ASSUME OrgTypeOK, OrgInv, [OrgNext]_<<vars, orgVars>> PROVE OrgInv'
    OBVIOUS
  <2>1. CASE UNCHANGED <<vars, orgVars>>
    BY <2>1 DEF vars, orgVars, OrgInv, Drawn, ManagersSound, ManagersOf, LogoInv, HasLogo, Emptied
  <2> QED
    BY <2>1, OrgInvStep
<1>2. OrgInv => OrgSound
  BY DEF OrgInv, OrgSound, LogoInv, LogoKept, HasLogo, Emptied, Locked
<1> QED
  BY <1>1, <1>2, OrgInitType, OrgStep, OrgInvInit, PTL DEF OrgSpec
=============================================================================

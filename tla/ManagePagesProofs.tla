-------------------------- MODULE ManagePagesProofs -------------------------
(***************************************************************************)
(* Proofs about the pages of one project in the management frontend and    *)
(* the roles they and the backend ask for.                                 *)
(*                                                                         *)
(* The project page: what makes the two copies of the board current is     *)
(* that a request for one of them which is still under way is counted in   *)
(* overlaps (the map) or is the newest of the histories (the dialog).  The *)
(* table: every change of what is shown ends with a request for it.  The   *)
(* review: it is either waiting for its first request and has sent no      *)
(* other, or each of its writes is under way or done.                      *)
(***************************************************************************)
EXTENDS SubmissionsPage, FiniteSetTheorems, TLAPS

-----------------------------------------------------------------------------
(* The roles. *)

LEMMA LevelNat == \A p \in ProjectRole : Level[p] \in Nat
BY DEF ProjectRole, Level

\* A project role is checked in two ways besides it: ADMIN and managers have it anyway.
LEMMA AtLeast ==
  ASSUME NEW r \in Rights, NEW role \in ProjectRole
  PROVE  at_least(r, role) <=>
           \/ r.role = "ADMIN"
           \/ /\ r.role # "READ_ONLY"
              /\ \/ r.manages
                 \/ r.project_role # None /\ Level[r.project_role] >= Level[role]
<1>1. role # None /\ r.manages \in BOOLEAN
  BY RolesAssumption DEF Rights
<1>2. QED
  BY <1>1 DEF at_least, wrap_check_access, check_access

\* A lower role asks for less.
LEMMA LowerRole ==
  ASSUME NEW r \in Rights, NEW p \in ProjectRole, NEW q \in ProjectRole, Level[q] <= Level[p],
         at_least(r, p)
  PROVE  at_least(r, q)
<1>1. CASE r.project_role = None
  BY <1>1, AtLeast
<1>2. CASE r.project_role \in ProjectRole
  BY <1>2, AtLeast, LevelNat
<1>3. QED
  BY <1>1, <1>2 DEF Rights

\* The dependencies of auth/roles.py form a chain: whoever passes one passes the ones below it,
\* so that moving an endpoint to a lower one never locks anybody out.  There is one exception,
\* get_organisation: until an organisation is approved org_admin refuses its managers, and even
\* the administrators, who pass everything else.
THEOREM RolesNested ==
  ASSUME NEW r \in Rights, NEW approved \in BOOLEAN
  PROVE  /\ super_admin(r) => (org_admin(r, approved) <=> approved)
         /\ super_admin(r) \/ org_admin(r, approved) => project_manager(r)
         /\ project_manager(r) => at_least(r, "ASSOCIATE_PROJECT_MANAGER")
         /\ at_least(r, "ASSOCIATE_PROJECT_MANAGER") => at_least(r, "FIELD_MANAGER")
         /\ at_least(r, "FIELD_MANAGER") => at_least(r, "VALIDATOR")
         /\ at_least(r, "VALIDATOR") => mapper(r)
<1>1. /\ {"MAPPER", "VALIDATOR", "FIELD_MANAGER", "ASSOCIATE_PROJECT_MANAGER",
          "PROJECT_MANAGER"} \subseteq ProjectRole
      /\ Level["MAPPER"] = 0 /\ Level["VALIDATOR"] = 1 /\ Level["FIELD_MANAGER"] = 2
      /\ Level["ASSOCIATE_PROJECT_MANAGER"] = 3 /\ Level["PROJECT_MANAGER"] = 4
  BY DEF ProjectRole, Level
<1>2. super_admin(r) => (org_admin(r, approved) <=> approved)
  BY DEF super_admin, org_admin, check_access
<1>3. super_admin(r) \/ org_admin(r, approved) => project_manager(r)
  BY DEF super_admin, org_admin, project_manager, wrap_check_access, check_access
<1>4. project_manager(r) = at_least(r, "PROJECT_MANAGER") /\ (at_least(r, "MAPPER") => mapper(r))
  BY DEF project_manager, mapper, at_least
<1>5. QED
  BY <1>1, <1>2, <1>3, <1>4, LowerRole

\* The hooks of the management frontend and the server agree on a user whose rights the frontend
\* has right, two cases apart: a READ_ONLY user, for whom the hooks do not look, and an
\* organisation that is not approved, which useIsOrganizationAdmin grants and the server
\* refuses.  In every other case what is offered is not refused, and nothing is held back.
THEOREM HooksSound ==
  ASSUME NEW r \in Rights, r.role # "READ_ONLY", NEW approved \in BOOLEAN
  PROVE  /\ org_admin(r, approved) <=> approved /\ useIsOrganizationAdmin(r)
         /\ project_manager(r) <=> useIsOrganizationAdmin(r) \/ useIsProjectManager(r)
<1>1. "PROJECT_MANAGER" \in ProjectRole
      /\ \A p \in ProjectRole : Level[p] >= Level["PROJECT_MANAGER"] <=> p = "PROJECT_MANAGER"
  BY DEF ProjectRole, Level
<1>2. project_manager(r) <=> at_least(r, "PROJECT_MANAGER")
  BY DEF project_manager, at_least
<1>3. org_admin(r, approved) <=> approved /\ useIsOrganizationAdmin(r)
  BY DEF useIsOrganizationAdmin, org_admin, check_access
<1>4. r.project_role \in ProjectRole \union {None}
  BY DEF Rights
<1>5. project_manager(r) <=> useIsOrganizationAdmin(r) \/ useIsProjectManager(r)
  BY <1>1, <1>2, <1>4, AtLeast, RolesAssumption DEF useIsOrganizationAdmin, useIsProjectManager
<1>6. QED
  BY <1>3, <1>5

-----------------------------------------------------------------------------
(* What holds on the project page. *)

\* A dialog is open for a task.
Opened == shown = "task" => selectedTask \in Task

Events == Of("event")
Histories == Of("history")

\* Requests are numbered in the order in which they are sent.
Numbers == \A c \in calls : c.n <= sent

\* A request for the history is answered with that of its task.
HistoryOfTask == \A c \in Histories : c.answer # None => c.answer.task = c.task

\* The rank of an event grows; the copies are never ahead of the board.
Ranks ==
  /\ \A t \in Task : /\ own[t] <= board[t].ver
                     /\ board[t].ver = 0 => board[t].state = "UNLOCKED_TO_MAP"
                     /\ t \in old => board[t].ver # 0
  /\ \A c \in Events : c.answer \notin {None, Failed} => c.answer.ver <= board[c.task].ver

\* While a read of the board is under way, so that the page may still get the past, every event
\* under way counts as overlapping it.
Overlapped ==
  /\ Reads # {} => \A c \in Events : c.task \in overlaps
  /\ \A c \in Reads : c.answer # None => \A t \in Task \ overlaps : c.answer[t].ver >= own[t]
  /\ \A c \in Events : c.styled \/ page.name = "table" \/ c.task \in overlaps
  /\ OwnEventShown

\* The copy of the table page is exact but for the named causes.
BoardFits ==
  /\ \A c \in Reads : c.answer # None =>
       \A t \in Task \ (elsewhere \union overlaps) : c.answer[t] = board[t]
  /\ page.name = "table" =>
       /\ \A c \in Events : c.styled => c.task \in overlaps
       /\ boundaries # None =>
            \A t \in Task \ (elsewhere \union overlaps) :
              (\A c \in Events : c.task # t) => boundaries[t] = board[t]

\* An event whose task is not blind is the only one of the task, and its answer is current.
OneEvent ==
  \A c \in Events : c.task \notin blind =>
    /\ \A d \in Events : d.task = c.task => d = c
    /\ c.answer \notin {None, Failed} => c.answer.state = board[c.task].state

Known(t) == t \notin blind \union old

\* k is the number of the history asked for last, by the dialog that is open.
Latest(k) ==
  /\ answered <= k
  /\ \A c \in Histories :
       /\ c.n <= k
       /\ c.n = k =>
            /\ c.task = selectedTask
            /\ selectedTask \notin blind => \A d \in Events : d.task # selectedTask
            /\ c.answer # None /\ Known(selectedTask) => c.answer.state = board[selectedTask].state
  /\ answered < k => \E c \in Histories : c.n = k
  /\ answered = k /\ doubts = {} =>
       /\ activity.task = selectedTask
       /\ Known(selectedTask) /\ (\A d \in Events : d.task # selectedTask) =>
            activity.state = board[selectedTask].state

DialogFits == shown = "task" => \E k \in 0..sent : Latest(k)

\* An event that has to fit is the only one of its task, and fits.
SureFits ==
  \A c \in Events : c.sure =>
    /\ \A d \in Events : d.task = c.task => d = c
    /\ c.answer = None => c.event \in actions[board[c.task].state]

PageInv ==
  /\ PageTypeOK /\ Opened /\ Numbers /\ HistoryOfTask /\ Ranks
  /\ Overlapped /\ BoardFits /\ OneEvent /\ DialogFits /\ SureFits

-----------------------------------------------------------------------------
(* The requests of the project page. *)

LEMMA CallFields ==
  ASSUME NEW c \in Call
  PROVE  /\ c.n \in Nat /\ c.kind \in {"project", "sync", "history", "event"}
         /\ c.kind \in {"project", "sync"} => c.answer \in [Task -> Row] \union {None}
         /\ c.kind = "history" => c.task \in Task /\ c.answer \in Newest \union {None}
         /\ c.kind = "event" => /\ c.task \in Task /\ c.event \in Event
                                /\ c.answer \in Row \union {None, Failed}
BY DEF Call

\* The requests as they are made.
LEMMA BoardCall ==
  ASSUME NEW n \in Nat, NEW k \in {"project", "sync"}
  PROVE  [n |-> n, kind |-> k, answer |-> None] \in Call
BY DEF Call

LEMMA HistoryCall ==
  ASSUME NEW n \in Nat, NEW t \in Task
  PROVE  [n |-> n, kind |-> "history", task |-> t, answer |-> None] \in Call
BY DEF Call

LEMMA EventCall ==
  ASSUME NEW n \in Nat, NEW t \in Task, NEW e \in Event, NEW styled \in BOOLEAN, NEW sure \in BOOLEAN
  PROVE  [n |-> n, kind |-> "event", task |-> t, event |-> e, styled |-> styled, sure |-> sure,
          answer |-> None] \in Call
BY DEF Call

\* c and d are one request, answered or not, certain or not.
Same(c, d) == /\ d.n = c.n /\ d.kind = c.kind
              /\ c.kind \in {"history", "event"} => d.task = c.task
              /\ c.kind = "event" => d.event = c.event /\ d.styled = c.styled

LEMMA BoardAnswer ==
  ASSUME NEW c \in Call, c.kind \in {"project", "sync"}, NEW x \in [Task -> Row]
  PROVE  [c EXCEPT !.answer = x] \in Call
BY DEF Call

LEMMA HistoryAnswer ==
  ASSUME NEW c \in Call, c.kind = "history", NEW x \in Newest
  PROVE  [c EXCEPT !.answer = x] \in Call
BY DEF Call

LEMMA EventAnswer ==
  ASSUME NEW c \in Call, c.kind = "event", NEW x \in Row \union {Failed}
  PROVE  [c EXCEPT !.answer = x] \in Call
BY DEF Call

LEMMA AnswerFields ==
  ASSUME NEW c \in Call, NEW x
  PROVE  /\ Same(c, [c EXCEPT !.answer = x]) /\ [c EXCEPT !.answer = x].answer = x
         /\ c.kind = "event" => [c EXCEPT !.answer = x].sure = c.sure
<1>1. CASE c.kind = "event"
  BY <1>1 DEF Call, Same
<1>2. CASE c.kind = "history"
  BY <1>2 DEF Call, Same
<1>3. CASE c.kind \in {"project", "sync"}
  BY <1>3 DEF Call, Same
<1> QED
  BY <1>1, <1>2, <1>3, CallFields

LEMMA Unsure ==
  ASSUME NEW c \in Call, c.kind = "event"
  PROVE  /\ [c EXCEPT !.sure = FALSE] \in Call
         /\ Same(c, [c EXCEPT !.sure = FALSE]) /\ ~[c EXCEPT !.sure = FALSE].sure
         /\ [c EXCEPT !.sure = FALSE].answer = c.answer
BY DEF Call, Same

LEMMA UnsureSet ==
  ASSUME calls \subseteq Call, NEW t
  PROVE  /\ unsure(t) \subseteq Call
         /\ \A d \in unsure(t) : \E c \in calls :
              /\ Same(c, d) /\ d.answer = c.answer
              /\ d = c \/ (c.kind = "event" /\ c.task = t /\ ~d.sure)
              /\ d.kind = "event" /\ d.task = t => ~d.sure
         /\ \A c \in calls : c.kind # "event" => c \in unsure(t)
<1>1. ASSUME NEW d \in unsure(t)
      PROVE  /\ d \in Call
             /\ \E c \in calls :
                  /\ Same(c, d) /\ d.answer = c.answer
                  /\ d = c \/ (c.kind = "event" /\ c.task = t /\ ~d.sure)
                  /\ d.kind = "event" /\ d.task = t => ~d.sure
  <2>1. PICK c \in calls :
          d = IF c.kind = "event" /\ c.task = t THEN [c EXCEPT !.sure = FALSE] ELSE c
    BY DEF unsure
  <2>2. CASE c.kind = "event" /\ c.task = t
    BY <2>1, <2>2, Unsure
  <2>3. CASE ~(c.kind = "event" /\ c.task = t)
    <3>1. d = c
      BY <2>1, <2>3
    <3>2. ~(d.kind = "event" /\ d.task = t)
      BY <2>3, <3>1
    <3>3. Same(c, d) /\ d \in Call
      BY <3>1 DEF Same
    <3> QED
      BY <3>1, <3>2, <3>3
  <2> QED
    BY <2>2, <2>3
<1>2. ASSUME NEW c \in calls, c.kind # "event" PROVE c \in unsure(t)
  BY <1>2 DEF unsure
<1> QED
  BY <1>1, <1>2

-----------------------------------------------------------------------------
(* The type of the project page. *)

LEMMA Posted ==
  ASSUME board \in [Task -> Row], NEW t \in Task, NEW e \in Event, NEW who \in {"me", "other"}
  PROVE  /\ post(t, e, who) \in [Task -> Row]
         /\ post(t, e, who)[t].ver = board[t].ver + 1
         /\ \A u \in Task \ {t} : post(t, e, who)[u] = board[u]
         /\ post(t, e, who)[t] # Failed
<1>1. Log!set_task_state[e] \in Log!MappingState
  <2>1. /\ Log!set_task_state["MAP"] = "LOCKED_FOR_MAPPING"
        /\ Log!set_task_state["FINISH"] = "UNLOCKED_TO_VALIDATE"
        /\ Log!set_task_state["VALIDATE"] = "LOCKED_FOR_VALIDATION"
        /\ Log!set_task_state["GOOD"] = "UNLOCKED_DONE"
        /\ Log!set_task_state["BAD"] = "UNLOCKED_TO_MAP"
    BY DEF Log!set_task_state, Log!TaskEvent
  <2> QED
    BY <2>1 DEF Event, Log!MappingState
<1>2. board[t] \in Row /\ board[t].ver \in Nat
  BY DEF Row
<1>3. [state |-> Log!set_task_state[e], actor |-> who, ver |-> board[t].ver + 1] \in Row
  BY <1>1, <1>2 DEF Row
<1>4. post(t, e, who) = [board EXCEPT ![t] = [state |-> Log!set_task_state[e], actor |-> who,
                                              ver |-> board[t].ver + 1]]
  BY DEF post
<1>5. Failed \notin Row
  BY DEF Failed, Row, Log!MappingState
<1> QED
  BY <1>3, <1>4, <1>5

LEMMA ReadBoardTyped ==
  ASSUME PageTypeOK, NEW cs \in SUBSET Call, NEW k \in {"project", "sync"}, read_board(cs, k)
  PROVE  /\ sent' = sent + 1 /\ calls' \subseteq Call
         /\ calls' = cs \union {[n |-> sent + 1, kind |-> k, answer |-> None]}
         /\ overlaps' \subseteq Task /\ elsewhere' \subseteq Task
         /\ \A c \in cs : c.kind = "event" => c.task \in overlaps'
         /\ (k = "project" /\ Reads = {}) \/ (overlaps \subseteq overlaps' /\ elsewhere' = elsewhere)
<1>1. sent \in Nat /\ overlaps \subseteq Task /\ elsewhere \subseteq Task
  BY DEF PageTypeOK
<1>2. sent' = sent + 1 /\ calls' = cs \union {[n |-> sent + 1, kind |-> k, answer |-> None]}
  <2>1. sent' = sent + 1
    BY DEF read_board
  <2>2. calls' = cs \union {[n |-> sent', kind |-> k, answer |-> None]}
    BY DEF read_board
  <2> QED
    BY <2>1, <2>2, Zenon
<1>3. [n |-> sent + 1, kind |-> k, answer |-> None] \in Call
  <2>1. sent + 1 \in Nat
    BY <1>1
  <2> QED
    BY <2>1, BoardCall
<1>4. {c.task : c \in {d \in cs : d.kind = "event"}} \subseteq Task
  BY CallFields
<1>5. /\ overlaps' \in {{c.task : c \in {d \in cs : d.kind = "event"}},
                        overlaps \union {c.task : c \in {d \in cs : d.kind = "event"}}}
      /\ elsewhere' \in {{}, elsewhere}
  BY DEF read_board
<1>6. (k = "project" /\ Reads = {}) \/ (overlaps \subseteq overlaps' /\ elsewhere' = elsewhere)
  BY DEF read_board
<1> QED
  BY <1>1, <1>2, <1>3, <1>4, <1>5, <1>6

LEMMA NavigateTyped ==
  ASSUME PageTypeOK, NEW p \in Page, NEW cs \in SUBSET Call, navigate(p, cs)
  PROVE  /\ page' \in Page /\ boundaries' \in [Task -> Row] \union {None}
         /\ shown' \in {"nothing", "task", "feature"} /\ calls' \subseteq Call
         /\ sent' \in Nat /\ sent <= sent'
         /\ elsewhere' \subseteq Task /\ overlaps' \subseteq Task
<1>1. CASE page.name = p.name
  <2>1. calls' = cs /\ UNCHANGED <<page, boundaries, shown, sent, elsewhere, overlaps>>
    BY <1>1 DEF navigate
  <2>2. /\ page \in Page /\ boundaries \in [Task -> Row] \union {None}
        /\ shown \in {"nothing", "task", "feature"} /\ sent \in Nat
        /\ elsewhere \subseteq Task /\ overlaps \subseteq Task
    BY DEF PageTypeOK
  <2> QED
    BY <2>1, <2>2
<1>2. CASE page.name # p.name
  <2>1. page' = p /\ shown' = "nothing" /\ boundaries' = None /\ read_board(cs, "project")
    BY <1>2 DEF navigate
  <2>2. sent \in Nat
    BY DEF PageTypeOK
  <2> QED
    BY <2>1, <2>2, ReadBoardTyped
<1> QED
  BY <1>1, <1>2

LEMMA Pages1 == Project \in Page /\ \A t \in Task \union {NoTask} : Table(t) \in Page
BY DEF Project, Table, Page

LEMMA EventTyped ==
  ASSUME PageTypeOK, NEW t \in Task, NEW e \in Event, NEW styled \in BOOLEAN, NEW sure \in BOOLEAN,
         CreateTaskEvent(t, e, styled, sure)
  PROVE  /\ events' \in 0..MaxOwn /\ sent' \in Nat /\ sent' = sent + 1 /\ calls' \subseteq Call
         /\ calls' = unsure(t) \union {[n |-> sent + 1, kind |-> "event", task |-> t, event |-> e,
                                        styled |-> styled, sure |-> sure, answer |-> None]}
         /\ loading' \in BOOLEAN /\ overlaps' \subseteq Task /\ blind' \subseteq Task
         /\ overlaps \subseteq overlaps' /\ blind \subseteq blind'
         /\ Reads # {} => t \in overlaps'
         /\ (\E c \in calls : c.kind \in {"history", "event"} /\ c.task = t) => t \in blind'
<1>1. sent \in Nat /\ overlaps \subseteq Task /\ blind \subseteq Task /\ calls \subseteq Call
      /\ events \in 0..MaxOwn /\ MaxOwn \in Nat
  BY PageAssumption DEF PageTypeOK
<1>2. sent' = sent + 1 /\ calls' = unsure(t) \union {[n |-> sent + 1, kind |-> "event", task |-> t,
                      event |-> e, styled |-> styled, sure |-> sure, answer |-> None]}
  BY DEF CreateTaskEvent
<1>3. calls' \subseteq Call
  BY <1>1, <1>2, EventCall, UnsureSet
<1>4. events' \in 0..MaxOwn
  BY <1>1 DEF CreateTaskEvent
<1> QED
  BY <1>1, <1>2, <1>3, <1>4 DEF CreateTaskEvent

LEMMA PageUserTyped ==
  ASSUME PageTypeOK, Opened,
         \/ visit(Project) \/ visit(Table(NoTask))
         \/ \E t \in Task : projectClickOnTaskArea(t)
         \/ projectClickOnTaskFeature \/ close_popup
         \/ \E e \in Event : handleOnClick(e)
         \/ handleTaskMap
         \/ syncStatus
  PROVE  PageTypeOK' /\ Opened'
<1>0. /\ sent \in Nat /\ calls \subseteq Call /\ activity \in Newest /\ answered \in 0..sent
      /\ selectedTask \in Task \union {NoTask} /\ page \in Page /\ blind \subseteq Task
  BY DEF PageTypeOK
<1>1. ASSUME NEW p \in Page, visit(p) PROVE PageTypeOK' /\ Opened'
  <2>1. navigate(p, calls)
    BY <1>1 DEF visit
  <2>2. /\ page' \in Page /\ boundaries' \in [Task -> Row] \union {None}
        /\ shown' = "nothing" /\ calls' \subseteq Call /\ sent' \in Nat /\ sent <= sent'
        /\ elsewhere' \subseteq Task /\ overlaps' \subseteq Task
    BY <1>0, <1>1, <2>1, NavigateTyped DEF visit, navigate
  <2>3. answered \in 0..sent'
    BY <1>0, <2>2
  <2> QED
    BY <1>1, <2>2, <2>3 DEF visit, PageTypeOK, Opened
<1>2. ASSUME NEW t \in Task, projectClickOnTaskArea(t) PROVE PageTypeOK' /\ Opened'
  <2>1. CASE dialog_opens(t)
    <3>1. sent' = sent + 1
          /\ calls' = calls \union {[n |-> sent + 1, kind |-> "history", task |-> t, answer |-> None]}
          /\ blind' \subseteq Task
      BY <1>0, <1>2, <2>1 DEF projectClickOnTaskArea
    <3>2. calls' \subseteq Call
      BY <1>0, <3>1, HistoryCall
    <3>3. answered \in 0..sent' /\ sent' \in Nat
      BY <1>0, <3>1
    <3> QED
      BY <1>0, <1>2, <3>1, <3>2, <3>3 DEF projectClickOnTaskArea, PageTypeOK, Opened
  <2>2. CASE ~dialog_opens(t)
    BY <1>2, <2>2 DEF projectClickOnTaskArea, PageTypeOK, Opened
  <2> QED
    BY <2>1, <2>2
<1>3. ASSUME projectClickOnTaskFeature \/ close_popup PROVE PageTypeOK' /\ Opened'
  BY <1>3 DEF projectClickOnTaskFeature, close_popup, PageTypeOK, Opened
<1>4. ASSUME NEW e \in Event, handleOnClick(e) PROVE PageTypeOK' /\ Opened'
  <2>1. selectedTask \in Task
    BY <1>4 DEF handleOnClick, Opened
  <2> DEFINE ok == selectedTask \notin blind \union old /\ doubts = {}
                    /\ ~\E c \in calls : c.kind \in {"history", "event"} /\ c.task = selectedTask
  <2>2. CreateTaskEvent(selectedTask, e, TRUE, ok)
    BY <1>4 DEF handleOnClick
  <2>3. ok \in BOOLEAN /\ TRUE \in BOOLEAN
    BY Zenon
  <2> HIDE DEF ok
  <2>4. /\ events' \in 0..MaxOwn /\ sent' \in Nat /\ sent' = sent + 1 /\ calls' \subseteq Call
        /\ loading' \in BOOLEAN /\ overlaps' \subseteq Task /\ blind' \subseteq Task
    BY <2>1, <2>2, <2>3, EventTyped
  <2>6. answered \in 0..sent'
    BY <1>0, <2>4
  <2> QED
    BY <1>0, <1>4, <2>4, <2>6 DEF handleOnClick, PageTypeOK, Opened
<1>5. ASSUME handleTaskMap PROVE PageTypeOK' /\ Opened'
  <2>1. page.task_id \in Task
    BY <1>0, <1>5 DEF handleTaskMap, Page
  <2> DEFINE ok == page.task_id \notin elsewhere \union overlaps
                    /\ ~\E c \in Of("event") : c.task = page.task_id
  <2>2. CreateTaskEvent(page.task_id, "GOOD", FALSE, ok)
    BY <1>5 DEF handleTaskMap
  <2>3. ok \in BOOLEAN /\ FALSE \in BOOLEAN
    BY Zenon
  <2>4. "GOOD" \in Event
    BY DEF Event
  <2> HIDE DEF ok
  <2>5. /\ events' \in 0..MaxOwn /\ sent' \in Nat /\ sent' = sent + 1 /\ calls' \subseteq Call
        /\ loading' \in BOOLEAN /\ overlaps' \subseteq Task /\ blind' \subseteq Task
    BY <2>1, <2>2, <2>3, <2>4, EventTyped
  <2>6. answered \in 0..sent'
    BY <1>0, <2>5
  <2> QED
    BY <1>0, <1>5, <2>5, <2>6 DEF handleTaskMap, PageTypeOK, Opened
<1>6. ASSUME syncStatus PROVE PageTypeOK' /\ Opened'
  <2>1. read_board(calls, "sync")
    BY <1>6 DEF syncStatus
  <2>2. sent' = sent + 1 /\ calls' \subseteq Call /\ overlaps' \subseteq Task /\ elsewhere' \subseteq Task
    BY <1>0, <2>1, ReadBoardTyped
  <2>3. answered \in 0..sent' /\ sent' \in Nat
    BY <1>0, <2>2
  <2> QED
    BY <1>6, <2>2, <2>3 DEF syncStatus, PageTypeOK, Opened
<1> QED
  BY <1>1, <1>2, <1>3, <1>4, <1>5, <1>6, Pages1

LEMMA PageBackendTyped ==
  ASSUME PageTypeOK, Opened,
         \/ \E t \in Task, e \in Event : other_event(t, e)
         \/ ten_days_pass
         \/ \E r \in Rights : change_rights(r)
         \/ \E c \in calls : add_new_task_event(c) \/ read(c)
  PROVE  PageTypeOK' /\ Opened'
<1>0. /\ calls \subseteq Call /\ board \in [Task -> Row] /\ others \in 0..MaxOthers /\ MaxOthers \in Nat
      /\ old \subseteq Task /\ blind \subseteq Task /\ elsewhere \subseteq Task
  BY PageAssumption DEF PageTypeOK
<1>1. ASSUME NEW t \in Task, NEW e \in Event, other_event(t, e) PROVE PageTypeOK' /\ Opened'
  <2>1. board' \in [Task -> Row] /\ old' \subseteq Task /\ blind' \subseteq Task /\ elsewhere' \subseteq Task
        /\ calls' \subseteq Call /\ others' \in 0..MaxOthers
    BY <1>0, <1>1, Posted, UnsureSet DEF other_event
  <2> QED
    BY <1>1, <2>1 DEF other_event, PageTypeOK, Opened
<1>2. ASSUME ten_days_pass PROVE PageTypeOK' /\ Opened'
  <2>1. old' \subseteq Task /\ blind' \subseteq Task /\ others' \in 0..MaxOthers
    BY <1>0, <1>2 DEF ten_days_pass
  <2> QED
    BY <1>2, <2>1 DEF ten_days_pass, PageTypeOK, Opened
<1>3. ASSUME NEW r \in Rights, change_rights(r) PROVE PageTypeOK' /\ Opened'
  <2>1. others' \in 0..MaxOthers
    BY <1>0, <1>3 DEF change_rights
  <2> QED
    BY <1>3, <2>1 DEF change_rights, PageTypeOK, Opened
<1>4. ASSUME NEW c \in calls, add_new_task_event(c) PROVE PageTypeOK' /\ Opened'
  <2>1. c.kind = "event" /\ c \in Call /\ c.task \in Task /\ c.event \in Event
    BY <1>0, <1>4, CallFields DEF add_new_task_event
  <2>2. CASE mapper(rights)
    <3>1. board' = post(c.task, c.event, "me") /\ board' \in [Task -> Row]
      BY <1>0, <1>4, <2>1, <2>2, Posted DEF add_new_task_event
    <3>2. calls' = (calls \ {c}) \union {[c EXCEPT !.answer = board'[c.task]]} /\ old' \subseteq Task
      BY <1>0, <1>4, <2>2 DEF add_new_task_event
    <3>3. board'[c.task] \in Row
      BY <2>1, <3>1
    <3>4. calls' \subseteq Call
      BY <1>0, <2>1, <3>2, <3>3, EventAnswer
    <3> QED
      BY <1>4, <3>1, <3>2, <3>4 DEF add_new_task_event, PageTypeOK, Opened
  <2>3. CASE ~mapper(rights)
    <3>1. calls' = (calls \ {c}) \union {[c EXCEPT !.answer = Failed]} /\ UNCHANGED <<board, old>>
      BY <1>4, <2>3 DEF add_new_task_event
    <3>2. calls' \subseteq Call
      BY <1>0, <2>1, <3>1, EventAnswer
    <3> QED
      BY <1>4, <3>1, <3>2 DEF add_new_task_event, PageTypeOK, Opened
  <2> QED
    BY <2>2, <2>3
<1>5. ASSUME NEW c \in calls, read(c) PROVE PageTypeOK' /\ Opened'
  <2>1. c \in Call /\ c.kind \in {"project", "sync", "history"} /\ c.answer = None
    BY <1>0, <1>5, CallFields DEF read
  <2>2. calls' = (calls \ {c}) \union
           {[c EXCEPT !.answer = IF c.kind = "history" THEN history(c.task) ELSE board]}
    BY <1>5 DEF read
  <2>3. CASE c.kind = "history"
    <3>1. c.task \in Task /\ board[c.task].state \in Log!MappingState
      BY <1>0, <2>1, <2>3, CallFields DEF Row
    <3>2. history(c.task) \in Newest
      BY <3>1 DEF history, Newest, Log!MappingState
    <3>3. calls' \subseteq Call
      BY <1>0, <2>1, <2>2, <2>3, <3>2, HistoryAnswer
    <3> QED
      BY <1>5, <3>3 DEF read, PageTypeOK, Opened
  <2>4. CASE c.kind # "history"
    <3>1. calls' \subseteq Call
      BY <1>0, <2>1, <2>2, <2>4, BoardAnswer
    <3> QED
      BY <1>5, <3>1 DEF read, PageTypeOK, Opened
  <2> QED
    BY <2>3, <2>4
<1> QED
  BY <1>1, <1>2, <1>3, <1>4, <1>5

LEMMA EventAnsweredTyped ==
  ASSUME PageTypeOK, Opened, NEW c \in calls, event_answered(c)
  PROVE  PageTypeOK' /\ Opened'
<1> DEFINE p == IF c.styled THEN Table(c.task) ELSE Project
<1>0. /\ c \in Call /\ c.kind = "event" /\ c.task \in Task /\ c.answer \in Row \union {Failed}
      /\ p \in Page /\ p.name = (IF c.styled THEN "table" ELSE "project")
  BY CallFields, Pages1 DEF event_answered, PageTypeOK, Table, Project
<1>1. calls \subseteq Call /\ sent \in Nat /\ own \in [Task -> Nat] /\ activity \in Newest /\ blind \subseteq Task
      /\ doubts \subseteq {"crossed", "lost", "moved on"}
      /\ boundaries \in [Task -> Row] \union {None} /\ answered \in 0..sent
  BY DEF PageTypeOK
<1>a. sent \in Nat /\ answered \in 0..sent
  BY DEF PageTypeOK
<1>2. activity' \in Newest /\ own' \in [Task -> Nat] /\ blind' \subseteq Task
      /\ doubts' \subseteq {"crossed", "lost", "moved on"}
  <2>1. CASE c.answer = Failed
    BY <1>0, <1>1, <2>1 DEF event_answered
  <2>2. CASE c.answer # Failed
    <3>1. c.answer \in Row /\ c.answer.ver \in Nat /\ c.answer.state \in Log!MappingState
      BY <1>0, <2>2 DEF Row
    <3>2. activity' = [task |-> c.task, state |-> c.answer.state] /\ own' = [own EXCEPT ![c.task] = c.answer.ver]
          /\ blind' = blind /\ doubts' \in {doubts, doubts \union {"moved on"}}
      BY <2>2 DEF event_answered, UpdateProjectTaskActivity
    <3>3. activity' \in Newest
      BY <1>0, <3>1, <3>2 DEF Newest
    <3> QED
      BY <1>0, <1>1, <3>1, <3>2, <3>3
  <2> QED
    BY <2>1, <2>2
<1>3. /\ page' \in Page /\ boundaries' \in [Task -> Row] \union {None}
      /\ shown' \in {"nothing", "task", "feature"} /\ calls' \subseteq Call
      /\ sent' \in Nat /\ sent <= sent'
      /\ elsewhere' \subseteq Task /\ overlaps' \subseteq Task
      /\ shown' # "task" \/ shown' = shown
  <2>1. CASE (~c.styled \/ c.event = "VALIDATE") /\ page.name # p.name
    <3>1. navigate(p, calls \ {c})
      BY <2>1 DEF event_answered
    <3>2. shown' = "nothing"
      BY <2>1, <3>1 DEF navigate
    <3>3. calls \ {c} \in SUBSET Call
      BY <1>1
    <3> HIDE DEF p
    <3> QED
      BY <1>0, <3>1, <3>2, <3>3, NavigateTyped
  <2>2. CASE ~((~c.styled \/ c.event = "VALIDATE") /\ page.name # p.name)
    <3>1. /\ calls' = calls \ {c} /\ UNCHANGED <<page, shown, sent, elsewhere, overlaps>>
          /\ boundaries' = IF c.styled /\ c.answer # Failed
                           THEN UpdateProjectTaskBoundries(c.task, c.answer) ELSE boundaries
      BY <2>2 DEF event_answered
    <3>2. boundaries' \in [Task -> Row] \union {None}
      BY <1>0, <1>1, <3>1 DEF UpdateProjectTaskBoundries
    <3>3. /\ page \in Page /\ shown \in {"nothing", "task", "feature"}
          /\ elsewhere \subseteq Task /\ overlaps \subseteq Task
      BY DEF PageTypeOK
    <3>4. calls' \subseteq Call
      BY <1>1, <3>1
    <3>5. sent' \in Nat /\ sent <= sent'
      BY <1>a, <3>1
    <3> QED
      BY <3>1, <3>2, <3>3, <3>4, <3>5
  <2> QED
    BY <2>1, <2>2
<1>4. loading' = FALSE /\ UNCHANGED <<rights, authDetails, board, old, selectedTask, answered, events, others>>
  BY Zenon DEF event_answered
<1>5. answered \in 0..sent'
  <2>1. sent' \in Nat /\ sent <= sent'
    BY <1>3
  <2> QED
    BY <1>a, <2>1
<1> QED
  BY <1>2, <1>3, <1>4, <1>5 DEF PageTypeOK, Opened

LEMMA PageAnswerTyped ==
  ASSUME PageTypeOK, Opened, Numbers, NEW c \in calls,
         lose(c) \/ event_answered(c) \/ history_answered(c) \/ ProjectById(c) \/ SyncTaskState(c)
  PROVE  PageTypeOK' /\ Opened'
<1>a. others \in 0..MaxOthers /\ MaxOthers \in Nat
  BY PageAssumption DEF PageTypeOK
<1>b. answered \in 0..sent /\ c.n \in 0..sent /\ sent \in Nat
  <2>1. answered \in 0..sent /\ sent \in Nat /\ c \in Call
    BY DEF PageTypeOK
  <2>2. c.n \in Nat
    BY <2>1, CallFields
  <2>3. c.n <= sent
    BY DEF Numbers
  <2> QED
    BY <2>1, <2>2, <2>3
<1>0. /\ calls \subseteq Call /\ c \in Call /\ boundaries \in [Task -> Row] \union {None}
      /\ doubts \subseteq {"crossed", "lost", "moved on"}
  BY DEF PageTypeOK
<1>1. CASE lose(c)
  <2>1. others' \in 0..MaxOthers
    BY <1>a, <1>1 DEF lose
  <2>4. doubts' = doubts \/ doubts' = doubts \union {"lost"}
    BY <1>1 DEF lose
  <2>2. calls' \subseteq Call
    BY <1>0, <1>1, EventAnswer DEF lose
  <2>5. doubts' \subseteq {"crossed", "lost", "moved on"}
    BY <1>0, <2>4
  <2>3. answered' \in 0..sent
    BY <1>b, <1>1 DEF lose
  <2> QED
    BY <1>1, <2>1, <2>2, <2>3, <2>5 DEF lose, PageTypeOK, Opened
<1>2. CASE history_answered(c)
  <2>1. c.answer \in Newest /\ answered' \in 0..sent /\ calls' \subseteq Call
        /\ doubts' \subseteq {"crossed", "lost", "moved on"}
    BY <1>0, <1>b, <1>2, CallFields DEF history_answered
  <2> QED
    BY <1>2, <2>1 DEF history_answered, PageTypeOK, Opened
<1>3. CASE ProjectById(c)
  <2>1. c.answer \in [Task -> Row] /\ calls' \subseteq Call
    BY <1>0, <1>3, CallFields DEF ProjectById, board_answered
  <2> QED
    BY <1>3, <2>1 DEF ProjectById, board_answered, PageTypeOK, Opened
<1>4. CASE SyncTaskState(c)
  <2>1. boundaries' \in [Task -> Row] \union {None} /\ calls' \subseteq Call
    BY <1>0, <1>4, CallFields DEF SyncTaskState, board_answered
  <2> QED
    BY <1>4, <2>1 DEF SyncTaskState, board_answered, PageTypeOK, Opened
<1> QED
  BY <1>1, <1>2, <1>3, <1>4, EventAnsweredTyped
-----------------------------------------------------------------------------
(* Steps that only look at what is under way. *)

LEMMA Quiet ==
  ASSUME Numbers, HistoryOfTask, Ranks, Overlapped, BoardFits, OneEvent, DialogFits, SureFits,
         UNCHANGED <<calls, sent, answered, board, own, old, boundaries, activity, doubts, blind,
                     elsewhere, overlaps>>,
         page'.name = page.name,
         shown' # "task" \/ UNCHANGED <<shown, selectedTask>>
  PROVE  /\ Numbers' /\ HistoryOfTask' /\ Ranks' /\ Overlapped' /\ BoardFits' /\ OneEvent'
         /\ DialogFits' /\ SureFits'
<1>1. Numbers' /\ HistoryOfTask' /\ Ranks'
  BY DEF Numbers, HistoryOfTask, Ranks, Histories, Events, Of
<1>2. Overlapped'
  BY DEF Overlapped, OwnEventShown, Events, Reads, Of
<1>3. BoardFits'
  BY DEF BoardFits, Events, Reads, Of
<1>4. OneEvent' /\ SureFits'
  BY DEF OneEvent, SureFits, Events, Of
<1>5. DialogFits'
  BY DEF DialogFits, Latest, Known, Histories, Events, Of
<1> QED
  BY <1>1, <1>2, <1>3, <1>4, <1>5

\* A history is asked for by the dialog that opens.
LEMMA ClickFits ==
  ASSUME PageInv, NEW t \in Task, projectClickOnTaskArea(t)
  PROVE  PageInv'
<1> DEFINE new == [n |-> sent + 1, kind |-> "history", task |-> t, answer |-> None]
<1>0. /\ sent \in Nat /\ answered \in 0..sent /\ calls \subseteq Call
  BY DEF PageInv, PageTypeOK
<1>1. /\ sent' = sent + 1 /\ calls' = calls \union {new} /\ selectedTask' = t /\ shown' = "task"
      /\ blind' = IF \E c \in Events : c.task = t THEN blind \union {t} ELSE blind \ {t}
      /\ UNCHANGED <<answered, board, own, old, page, boundaries, activity, doubts, elsewhere, overlaps>>
  BY DEF projectClickOnTaskArea, dialog_opens, Events
<1>2. new.n = sent + 1 /\ new.kind = "history" /\ new.task = t /\ new.answer = None
  OBVIOUS
<1> HIDE DEF new
<1>3. Events' = Events /\ Reads' = Reads /\ Histories' = Histories \union {new}
  BY <1>1, <1>2 DEF Events, Reads, Histories, Of
<1>4. PageTypeOK' /\ Opened'
  BY PageUserTyped DEF PageInv
<1>5. Numbers'
  <2>1. \A c \in calls : c.n \in Nat /\ c.n <= sent
    BY <1>0, CallFields DEF PageInv, Numbers
  <2> QED
    BY <1>0, <1>1, <1>2, <2>1 DEF Numbers
<1>6. HistoryOfTask' /\ Ranks'
  BY <1>1, <1>2, <1>3 DEF PageInv, HistoryOfTask, Ranks
<1>7. Overlapped' /\ BoardFits'
  BY <1>1, <1>3 DEF PageInv, Overlapped, BoardFits, OwnEventShown
<1>8. OneEvent' /\ SureFits'
  BY <1>1, <1>3 DEF PageInv, OneEvent, SureFits
<1>9. Latest(sent)'
  <2>1. \A c \in Histories : c.n \in Nat /\ c.n <= sent
    BY <1>0, CallFields DEF PageInv, Numbers, Histories, Of
  <2>2. answered' <= sent + 1 /\ answered' # sent + 1 /\ new \in Histories'
    BY <1>0, <1>1, <1>3
  <2>3. \A c \in Histories' : c.n <= sent + 1 /\ (c.n = sent + 1 => c = new)
    BY <1>0, <1>2, <1>3, <2>1
  <2>4. selectedTask' \notin blind' => \A d \in Events' : d.task # selectedTask'
    BY <1>1, <1>3
  <2>5. answered' <= sent' /\ (answered' < sent' => \E c \in Histories' : c.n = sent')
        /\ answered' # sent'
    BY <1>0, <1>1, <1>2, <2>2
  <2>6. \A c \in Histories' : c.n <= sent' /\ (c.n = sent' => c = new)
    BY <1>1, <2>3
  <2> QED
    BY <1>1, <1>2, <2>4, <2>5, <2>6 DEF Latest
<1>10. DialogFits'
  <2>1. sent' \in 0..sent'
    BY <1>0, <1>1
  <2> QED
    BY <1>9, <2>1 DEF DialogFits
<1> QED
  BY <1>4, <1>5, <1>6, <1>7, <1>8, <1>10 DEF PageInv

-----------------------------------------------------------------------------
(* An event is sent. *)

LEMMA UnsureEvents ==
  ASSUME calls \subseteq Call, NEW t, NEW d \in unsure(t), d.kind = "event"
  PROVE  \E c \in Events : /\ Same(c, d) /\ d.answer = c.answer /\ c.task = d.task
                           /\ d.styled = c.styled /\ d.event = c.event
                           /\ d = c \/ (c.task = t /\ ~d.sure)
                           /\ d.task = t => ~d.sure
<1>1. PICK c \in calls : /\ Same(c, d) /\ d.answer = c.answer
                         /\ d = c \/ (c.kind = "event" /\ c.task = t /\ ~d.sure)
                         /\ d.kind = "event" /\ d.task = t => ~d.sure
  BY UnsureSet
<1>2. c \in Events /\ c.task = d.task /\ d.styled = c.styled /\ d.event = c.event
  BY <1>1 DEF Same, Events, Of
<1>3. d = c \/ (c.task = t /\ ~d.sure)
  BY <1>1
<1>4. d.task = t => ~d.sure
  BY <1>1
<1> QED
  BY <1>1, <1>2, <1>3, <1>4

LEMMA UnsureOthers ==
  ASSUME calls \subseteq Call, NEW t, NEW c, c.kind # "event"
  PROVE  c \in unsure(t) <=> c \in calls
<1>1. ASSUME c \in unsure(t) PROVE c \in calls
  <2>1. PICK d \in calls :
          c = IF d.kind = "event" /\ d.task = t THEN [d EXCEPT !.sure = FALSE] ELSE d
    BY <1>1 DEF unsure
  <2>2. CASE d.kind = "event" /\ d.task = t
    BY <2>1, <2>2, Unsure DEF Same
  <2> QED
    BY <2>1, <2>2
<1> QED
  BY <1>1, UnsureSet

LEMMA SendFits ==
  ASSUME PageInv, NEW t \in Task, NEW e \in Event, NEW styled \in BOOLEAN, NEW sure \in BOOLEAN,
         CreateTaskEvent(t, e, styled, sure),
         styled => page.name = "project",
         ~styled => page.name = "table",
         sure => (\A c \in Events : c.task # t) /\ e \in actions[board[t].state],
         UNCHANGED <<board, old, page, boundaries, selectedTask, shown, activity, answered, doubts,
                     elsewhere, own>>
  PROVE  /\ Numbers' /\ HistoryOfTask' /\ Ranks' /\ Overlapped' /\ BoardFits' /\ OneEvent'
         /\ DialogFits' /\ SureFits'
<1> DEFINE new == [n |-> sent + 1, kind |-> "event", task |-> t, event |-> e,
                   styled |-> styled, sure |-> sure, answer |-> None]
<1>0. /\ calls \subseteq Call /\ sent \in Nat /\ answered \in 0..sent /\ overlaps \subseteq Task
  BY DEF PageInv, PageTypeOK
<1>1. /\ sent' = sent + 1 /\ calls' = unsure(t) \union {new}
      /\ overlaps \subseteq overlaps' /\ blind \subseteq blind'
      /\ Reads # {} => t \in overlaps'
      /\ (\E c \in calls : c.kind \in {"history", "event"} /\ c.task = t) => t \in blind'
  BY EventTyped DEF PageInv
<1>a. blind' \in {blind, blind \union {t}} /\ overlaps' \in {overlaps, overlaps \union {t}}
  BY DEF CreateTaskEvent
<1>2. new.n = sent + 1 /\ new.kind = "event" /\ new.task = t /\ new.answer = None /\ new.event = e
  OBVIOUS
<1>3. new.styled = styled /\ new.sure = sure
  BY Zenon
<1> HIDE DEF new
<1>4. Reads' = Reads /\ Histories' = Histories
  BY <1>0, <1>1, <1>2, UnsureOthers DEF Reads, Histories, Of
<1>5. ASSUME NEW d \in Events'
      PROVE  \/ d = new
             \/ \E c \in Events : /\ c.task = d.task /\ d.answer = c.answer
                                  /\ d.styled = c.styled
                                  /\ d = c \/ (c.task = t /\ ~d.sure)
                                  /\ d.task = t => ~d.sure
  <2>1. d.kind = "event" /\ (d = new \/ d \in unsure(t))
    BY <1>1, <1>5 DEF Events, Of
  <2>2. CASE d \in unsure(t)
    <3>1. PICK c \in Events : /\ Same(c, d) /\ d.answer = c.answer /\ c.task = d.task
                              /\ d.styled = c.styled /\ d.event = c.event
                              /\ d = c \/ (c.task = t /\ ~d.sure)
                              /\ d.task = t => ~d.sure
      BY <1>0, <2>1, <2>2, UnsureEvents
    <3> QED
      BY <3>1, Zenon
  <2> QED
    BY <2>1, <2>2
<1>6. \A c \in Events : c \in calls /\ c.kind = "event"
  BY DEF Events, Of
<1>7. Numbers'
  <2>1. ASSUME NEW d \in calls' PROVE d.n <= sent'
    <3>1. CASE d = new
      BY <1>0, <1>1, <1>2, <3>1
    <3>2. CASE d \in unsure(t)
      <4>1. PICK c \in calls : Same(c, d)
        BY <1>0, <3>2, UnsureSet
      <4>2. d.n = c.n /\ c.n \in Nat /\ c.n <= sent
        BY <1>0, <4>1, CallFields DEF Same, PageInv, Numbers
      <4> QED
        BY <1>0, <1>1, <4>2
    <3> QED
      BY <1>1, <3>1, <3>2
  <2> QED
    BY <2>1 DEF Numbers
<1>8. HistoryOfTask'
  BY <1>4 DEF PageInv, HistoryOfTask
<1>9. Ranks'
  <2>1. ASSUME NEW d \in Events', d.answer \notin {None, Failed} PROVE d.answer.ver <= board[d.task].ver
    <3>1. PICK c \in Events : c.task = d.task /\ d.answer = c.answer
      BY <1>2, <1>5, <2>1
    <3> QED
      BY <2>1, <3>1 DEF PageInv, Ranks
  <2> QED
    BY <2>1 DEF PageInv, Ranks
<1>10. Overlapped'
  <2>1. Reads' # {} => \A d \in Events' : d.task \in overlaps'
    BY <1>1, <1>2, <1>4, <1>5 DEF PageInv, Overlapped
  <2>2. \A d \in Events' : d.styled \/ page.name = "table" \/ d.task \in overlaps'
    <3>1. ASSUME NEW d \in Events' PROVE d.styled \/ page.name = "table" \/ d.task \in overlaps'
      <4>1. CASE d = new
        BY <1>3, <4>1
      <4>2. CASE d # new
        <5>1. PICK c \in Events : c.task = d.task /\ d.styled = c.styled
          BY <1>5, <4>2
        <5>2. c.styled \/ page.name = "table" \/ c.task \in overlaps
          BY DEF PageInv, Overlapped
        <5> QED
          BY <1>1, <5>1, <5>2
      <4> QED
        BY <4>1, <4>2
    <3> QED
      BY <3>1
  <2> QED
    BY <1>1, <1>4, <2>1, <2>2 DEF PageInv, Overlapped, OwnEventShown
<1>11. BoardFits'
  <2>1. ASSUME NEW d \in Events', d.styled, page.name = "table" PROVE d.task \in overlaps'
    <3>1. d # new
      BY <1>3, <2>1
    <3>2. PICK c \in Events : c.task = d.task /\ d.styled = c.styled
      BY <1>5, <3>1
    <3> QED
      BY <1>1, <2>1, <3>2 DEF PageInv, BoardFits
  <2>2. ASSUME NEW u \in Task, \A d \in Events' : d.task # u
        PROVE  \A c \in Events : c.task # u
    <3>1. ASSUME NEW c \in Events, c.task = u PROVE FALSE
      <4>1. c \in calls /\ c.kind = "event" /\ c \in Call
        BY <1>0, <1>6
      <4>2. CASE u = t
        <5>1. new \in Events'
          BY <1>1, <1>2 DEF Events, Of
        <5> QED
          BY <1>2, <2>2, <4>2, <5>1
      <4>3. CASE u # t
        <5>1. c \in unsure(t)
          BY <3>1, <4>1, <4>3 DEF unsure
        <5>2. c \in Events'
          BY <1>1, <4>1, <5>1 DEF Events, Of
        <5> QED
          BY <2>2, <3>1, <5>2
      <4> QED
        BY <4>2, <4>3
    <3> QED
      BY <3>1
  <2> QED
    BY <1>1, <1>4, <2>1, <2>2 DEF PageInv, BoardFits
<1>12. OneEvent'
  <2> SUFFICES ASSUME NEW c \in Events', c.task \notin blind'
               PROVE  /\ \A d \in Events' : d.task = c.task => d = c
                      /\ c.answer \notin {None, Failed} => c.answer.state = board[c.task].state
    BY DEF OneEvent
  <2>1. CASE c.task = t
    <3>1. \A d \in Events : d.task # t
      BY <1>1, <1>6, <2>1
    <3>2. \A d \in Events' : d.task = t => d = new
      BY <1>5, <3>1
    <3> QED
      BY <1>2, <2>1, <3>2
  <2>2. CASE c.task # t
    <3>1. \A d \in Events' : d.task # t => d \in Events
      BY <1>2, <1>5
    <3> QED
      BY <1>1, <2>2, <3>1 DEF PageInv, OneEvent
  <2> QED
    BY <2>1, <2>2
<1>13. SureFits'
  <2> SUFFICES ASSUME NEW c \in Events', c.sure
               PROVE  /\ \A d \in Events' : d.task = c.task => d = c
                      /\ c.answer = None => c.event \in actions[board[c.task].state]
    BY DEF SureFits
  <2>1. CASE c = new
    <3>1. sure
      BY <1>3, <2>1
    <3>2. \A d \in Events' : d.task = t => d = new
      BY <1>5, <3>1
    <3> QED
      BY <1>2, <2>1, <3>1, <3>2
  <2>2. CASE c # new
    <3>1. PICK o \in Events : /\ o.task = c.task /\ c.answer = o.answer
                              /\ c = o \/ (o.task = t /\ ~c.sure)
                              /\ c.task = t => ~c.sure
      BY <1>5, <2>2
    <3>2. c = o /\ c.task # t
      BY <3>1
    <3>3. \A d \in Events' : d.task # t => d \in Events
      BY <1>2, <1>5
    <3> QED
      BY <3>2, <3>3 DEF PageInv, SureFits
  <2> QED
    BY <2>1, <2>2
<1>14. DialogFits'
  <2> SUFFICES ASSUME shown = "task" PROVE \E k \in 0..sent' : Latest(k)'
    BY DEF DialogFits
  <2>1. PICK k \in 0..sent : Latest(k)
    BY DEF PageInv, DialogFits
  <2>2. k \in 0..sent'
    BY <1>0, <1>1, <2>1
  <2>3. (\A d \in Events' : d.task # selectedTask) => (\A c \in Events : c.task # selectedTask)
    <3>1. ASSUME NEW c \in Events, c.task = selectedTask PROVE \E d \in Events' : d.task = selectedTask
      <4>1. c \in calls /\ c.kind = "event" /\ c \in Call
        BY <1>0, <1>6
      <4>2. CASE selectedTask = t
        <5>1. new \in Events'
          BY <1>1, <1>2 DEF Events, Of
        <5> QED
          BY <1>2, <4>2, <5>1
      <4>3. CASE selectedTask # t
        <5>1. c \in unsure(t)
          BY <3>1, <4>1, <4>3 DEF unsure
        <5>2. c \in Events'
          BY <1>1, <4>1, <5>1 DEF Events, Of
        <5> QED
          BY <3>1, <5>2
      <4> QED
        BY <4>2, <4>3
    <3> QED
      BY <3>1
  <2>4. ASSUME NEW c \in Histories, c.n = k, selectedTask \notin blind'
        PROVE  \A d \in Events' : d.task # selectedTask
    <3>1. c.task = selectedTask /\ \A d \in Events : d.task # selectedTask
      BY <1>1, <2>1, <2>4 DEF Latest
    <3>2. t # selectedTask
      BY <1>1, <2>4, <3>1 DEF Histories, Of
    <3> QED
      BY <1>2, <1>5, <3>1, <3>2
  <2>5. Known(selectedTask)' => Known(selectedTask)
    BY <1>1 DEF Known
  <2>6. Latest(k)'
    BY <1>1, <1>4, <2>1, <2>3, <2>4, <2>5 DEF Latest
  <2> QED
    BY <2>2, <2>6
<1> QED
  BY <1>7, <1>8, <1>9, <1>10, <1>11, <1>12, <1>13, <1>14

-----------------------------------------------------------------------------
(* The board is read. *)

\* A page opens: it has no copy of the board, and asks for one.
LEMMA OpenFits ==
  ASSUME PageInv, NEW cs \in SUBSET calls, \A c \in calls : c.kind # "event" => c \in cs,
         read_board(cs, "project"), boundaries' = None, shown' = "nothing", UNCHANGED <<board, old>>,
         blind \subseteq blind',
         \A t \in Task : own'[t] = own[t] \/ (own'[t] <= board[t].ver /\ \E c \in Events : c.task = t)
  PROVE  /\ Numbers' /\ HistoryOfTask' /\ Ranks' /\ Overlapped' /\ BoardFits' /\ OneEvent'
         /\ DialogFits' /\ SureFits'
<1> DEFINE new == [n |-> sent + 1, kind |-> "project", answer |-> None]
<1>0. calls \subseteq Call /\ sent \in Nat /\ cs \in SUBSET Call
  BY DEF PageInv, PageTypeOK
<1>1. /\ sent' = sent + 1 /\ calls' = cs \union {new}
      /\ \A c \in cs : c.kind = "event" => c.task \in overlaps'
      /\ Reads = {} \/ (overlaps \subseteq overlaps' /\ elsewhere' = elsewhere)
  BY <1>0, ReadBoardTyped DEF PageInv
<1>2. new.n = sent + 1 /\ new.kind = "project" /\ new.answer = None
  OBVIOUS
<1> HIDE DEF new
<1>3. Events' \subseteq Events /\ Events' \subseteq cs /\ Histories' \subseteq Histories /\ Reads' = Reads \union {new}
  BY <1>1, <1>2 DEF Events, Histories, Reads, Of
<1>4. \A c \in Events' : c.kind = "event" /\ c.task \in overlaps'
  BY <1>1, <1>3 DEF Events, Of
<1>5. Numbers'
  <2>1. \A c \in calls : c.n \in Nat /\ c.n <= sent
    BY <1>0, CallFields DEF PageInv, Numbers
  <2> QED
    BY <1>0, <1>1, <1>2, <2>1 DEF Numbers
<1>6. HistoryOfTask' /\ DialogFits'
  BY <1>3 DEF PageInv, HistoryOfTask, DialogFits
<1>7. Ranks'
  BY <1>3 DEF PageInv, Ranks
<1>8. Overlapped'
  <2>1. ASSUME NEW c \in Reads', c.answer # None, NEW t \in Task \ overlaps'
        PROVE  c.answer[t] \in Row => c.answer[t].ver >= own'[t]
    <3>1. c \in Reads /\ Reads # {}
      BY <1>2, <1>3, <2>1
    <3>2. t \notin overlaps /\ c.answer[t].ver >= own[t] /\ \A d \in Events : d.task # t
      BY <1>1, <2>1, <3>1 DEF PageInv, Overlapped
    <3> QED
      BY <3>2
  <2>2. ASSUME NEW c \in Reads', c.answer # None, NEW t \in Task \ overlaps'
        PROVE  c.answer[t] \in Row
    BY <1>0, <1>2, <1>3, <2>2, CallFields DEF Reads, Of
  <2> QED
    BY <1>4, <2>1, <2>2 DEF Overlapped, OwnEventShown
<1>9. BoardFits'
  <2>1. ASSUME NEW c \in Reads', c.answer # None, NEW t \in Task \ (elsewhere' \union overlaps')
        PROVE  c.answer[t] = board[t]
    <3>1. c \in Reads /\ Reads # {}
      BY <1>2, <1>3, <2>1
    <3> QED
      BY <1>1, <2>1, <3>1 DEF PageInv, BoardFits
  <2> QED
    BY <1>4, <2>1 DEF BoardFits
<1>10. OneEvent' /\ SureFits'
  BY <1>3 DEF PageInv, OneEvent, SureFits
<1> QED
  BY <1>5, <1>6, <1>7, <1>8, <1>9, <1>10

LEMMA VisitFits ==
  ASSUME PageInv, NEW p \in {Project, Table(NoTask)}, visit(p)
  PROVE  PageInv'
<1>1. /\ read_board(calls, "project") /\ boundaries' = None /\ shown' = "nothing"
      /\ UNCHANGED <<board, old, blind, own>>
  BY DEF visit, navigate
<1>2. PageTypeOK' /\ Opened'
  BY PageUserTyped DEF PageInv
<1>3. \A t \in Task : own'[t] = own[t]
  BY <1>1
<1> QED
  BY <1>1, <1>2, <1>3, OpenFits DEF PageInv

LEMMA SyncFits ==
  ASSUME PageInv, syncStatus
  PROVE  PageInv'
<1> DEFINE new == [n |-> sent + 1, kind |-> "sync", answer |-> None]
<1>0. calls \in SUBSET Call /\ sent \in Nat
  BY DEF PageInv, PageTypeOK
<1>a. /\ read_board(calls, "sync")
      /\ UNCHANGED <<board, old, page, boundaries, selectedTask, shown, activity, answered,
                     doubts, blind, own>>
  BY DEF syncStatus
<1>1. /\ sent' = sent + 1 /\ calls' = calls \union {new}
      /\ \A c \in calls : c.kind = "event" => c.task \in overlaps'
      /\ overlaps \subseteq overlaps' /\ elsewhere' = elsewhere
  BY <1>0, <1>a, ReadBoardTyped DEF PageInv
<1>2. new.n = sent + 1 /\ new.kind = "sync" /\ new.answer = None
  OBVIOUS
<1> HIDE DEF new
<1>3. Events' = Events /\ Histories' = Histories /\ Reads' = Reads \union {new}
      /\ \A c \in Events : c \in calls /\ c.kind = "event"
  BY <1>1, <1>2 DEF Events, Histories, Reads, Of
<1>4. PageTypeOK' /\ Opened'
  BY PageUserTyped DEF PageInv
<1>5. Numbers'
  <2>1. \A c \in calls : c.n \in Nat /\ c.n <= sent
    BY <1>0, CallFields DEF PageInv, Numbers
  <2> QED
    BY <1>0, <1>1, <1>2, <2>1 DEF Numbers
<1>6. HistoryOfTask' /\ Ranks'
  BY <1>a, <1>3 DEF PageInv, HistoryOfTask, Ranks
<1>7. Overlapped'
  BY <1>a, <1>1, <1>2, <1>3 DEF PageInv, Overlapped, OwnEventShown
<1>8. BoardFits'
  BY <1>a, <1>1, <1>2, <1>3 DEF PageInv, BoardFits
<1>9. OneEvent' /\ SureFits'
  BY <1>a, <1>3 DEF PageInv, OneEvent, SureFits
<1>10. DialogFits'
  <2>1. \A k \in 0..sent : Latest(k) => Latest(k)' /\ k \in 0..sent'
    BY <1>0, <1>a, <1>1, <1>3 DEF Latest, Known
  <2> QED
    BY <1>a, <2>1 DEF PageInv, DialogFits
<1> QED
  BY <1>4, <1>5, <1>6, <1>7, <1>8, <1>9, <1>10 DEF PageInv

-----------------------------------------------------------------------------
(* The backend. *)

LEMMA CommitFits ==
  ASSUME PageInv, NEW c \in calls, add_new_task_event(c), mapper(rights)
  PROVE  PageInv'
<1> DEFINE t == c.task
           a == [c EXCEPT !.answer = board'[t]]
<1>0. /\ calls \subseteq Call /\ board \in [Task -> Row] /\ c \in Call /\ c.kind = "event" /\ c.answer = None
      /\ t \in Task /\ c.event \in Event
  BY CallFields DEF PageInv, PageTypeOK, add_new_task_event
<1>1. /\ board' = post(t, c.event, "me") /\ old' = old \ {t} /\ calls' = (calls \ {c}) \union {a}
      /\ UNCHANGED <<page, boundaries, selectedTask, shown, activity,
                     sent, answered, doubts, blind, elsewhere, overlaps, own>>
  BY DEF add_new_task_event
<1>2. /\ board' \in [Task -> Row] /\ board'[t].ver = board[t].ver + 1
      /\ \A u \in Task \ {t} : board'[u] = board[u]
  BY <1>0, <1>1, Posted
<1>3. Same(c, a) /\ a.answer = board'[t] /\ a.sure = c.sure
  BY <1>0, AnswerFields
<1>4. a.kind = "event" /\ a.task = t /\ a.n = c.n /\ a.event = c.event /\ a.styled = c.styled
  BY <1>0, <1>3 DEF Same
<1> HIDE DEF a
<1>5. /\ Events' = (Events \ {c}) \union {a} /\ Histories' = Histories /\ Reads' = Reads /\ c \in Events
      /\ \A d \in Events : d.task \in Task
  BY <1>0, <1>1, <1>4, CallFields DEF Events, Histories, Reads, Of
<1>6. PageTypeOK' /\ Opened'
  BY PageBackendTyped DEF PageInv
<1>7. Numbers' /\ HistoryOfTask'
  BY <1>1, <1>4, <1>5 DEF PageInv, Numbers, HistoryOfTask
<1>8. \A u \in Task : board[u].ver \in Nat /\ own[u] \in Nat /\ board'[u].ver \in Nat
  BY <1>0, <1>2 DEF Row, PageInv, PageTypeOK
<1>9. Ranks'
  <2>1. \A u \in Task : /\ own[u] <= board'[u].ver
                        /\ board'[u].ver = 0 => board'[u].state = "UNLOCKED_TO_MAP"
                        /\ u \in old' => board'[u].ver # 0
    BY <1>0, <1>1, <1>2, <1>8 DEF PageInv, Ranks
  <2>2. ASSUME NEW d \in Events', d.answer \notin {None, Failed} PROVE d.answer.ver <= board'[d.task].ver
    <3>1. CASE d = a
      BY <1>0, <1>3, <1>4, <1>8, <3>1
    <3>2. CASE d # a
      <4>1. d \in Events /\ d.task \in Task /\ d \in Call /\ d.kind = "event"
        BY <1>0, <1>5, <3>2 DEF Events, Of
      <4>2. d.answer \in Row /\ d.answer.ver \in Nat
        BY <2>2, <4>1, CallFields DEF Row
      <4>3. d.answer.ver <= board[d.task].ver
        BY <2>2, <4>1 DEF PageInv, Ranks
      <4>4. board[d.task].ver <= board'[d.task].ver
        BY <1>0, <1>2, <1>8, <4>1
      <4> QED
        BY <1>8, <4>1, <4>2, <4>3, <4>4
    <3> QED
      BY <3>1, <3>2
  <2> QED
    BY <1>1, <2>1, <2>2 DEF Ranks
<1>10. Overlapped'
  BY <1>1, <1>4, <1>5 DEF PageInv, Overlapped, OwnEventShown
<1>11. BoardFits'
  <2>1. ASSUME NEW d \in Reads, d.answer # None, NEW u \in Task \ (elsewhere \union overlaps)
        PROVE  d.answer[u] = board'[u]
    <3>1. t \in overlaps
      BY <1>5, <2>1 DEF PageInv, Overlapped
    <3> QED
      BY <1>2, <2>1, <3>1 DEF PageInv, BoardFits
  <2>2. ASSUME page.name = "table", NEW d \in Events', d.styled PROVE d.task \in overlaps
    BY <1>4, <1>5, <2>2 DEF PageInv, BoardFits
  <2>3. ASSUME page.name = "table", boundaries # None, NEW u \in Task \ (elsewhere \union overlaps),
               \A d \in Events' : d.task # u
        PROVE  boundaries[u] = board'[u]
    <3>1. u # t /\ \A d \in Events : d.task # u
      BY <1>4, <1>5, <2>3
    <3> QED
      BY <1>2, <2>3, <3>1 DEF PageInv, BoardFits
  <2> QED
    BY <1>1, <1>5, <2>1, <2>2, <2>3 DEF BoardFits
<1>12. OneEvent'
  <2> SUFFICES ASSUME NEW d \in Events', d.task \notin blind
               PROVE  /\ \A b \in Events' : b.task = d.task => b = d
                      /\ d.answer \notin {None, Failed} => d.answer.state = board'[d.task].state
    BY <1>1 DEF OneEvent
  <2>1. CASE d.task = t
    <3>1. \A b \in Events : b.task = t => b = c
      BY <1>5, <2>1 DEF PageInv, OneEvent
    <3> QED
      BY <1>3, <1>4, <1>5, <2>1, <3>1
  <2>2. CASE d.task # t
    <3>1. d \in Events /\ d.task \in Task
      BY <1>4, <1>5, <2>2
    <3> QED
      BY <1>2, <1>4, <1>5, <2>2, <3>1 DEF PageInv, OneEvent
  <2> QED
    BY <2>1, <2>2
<1>13. SureFits'
  <2> SUFFICES ASSUME NEW d \in Events', d.sure
               PROVE  /\ \A b \in Events' : b.task = d.task => b = d
                      /\ d.answer = None => d.event \in actions[board'[d.task].state]
    BY <1>1 DEF SureFits
  <2>1. CASE d = a
    <3>1. c.sure
      BY <1>3, <2>1
    <3>2. \A b \in Events : b.task = t => b = c
      BY <1>5, <3>1 DEF PageInv, SureFits
    <3>3. \A b \in Events' : b.task = d.task => b = d
      BY <1>4, <1>5, <2>1, <3>2
    <3>4. d.answer # None
      BY <1>0, <1>2, <1>3, <2>1, RowAssumption
    <3> QED
      BY <3>3, <3>4
  <2>2. CASE d # a
    <3>1. d \in Events /\ d # c /\ d.task \in Task
      BY <1>5, <2>2
    <3>2. d.task # t
      BY <1>5, <3>1 DEF PageInv, SureFits
    <3> QED
      BY <1>2, <1>4, <1>5, <3>1, <3>2 DEF PageInv, SureFits
  <2> QED
    BY <2>1, <2>2
<1>14. DialogFits'
  <2>1. ASSUME shown = "task", NEW k \in 0..sent, Latest(k) PROVE Latest(k)'
    <3>1. (\A d \in Events' : d.task # selectedTask) <=> (\A d \in Events : d.task # selectedTask)
      BY <1>4, <1>5
    <3>2. selectedTask \in Task
      BY <2>1 DEF PageInv, Opened
    <3>3. CASE selectedTask = t
      <4>1. ~\A d \in Events : d.task # selectedTask
        BY <1>5, <3>3
      <4>2. \A d \in Histories : d.n = k => selectedTask \in blind
        BY <2>1, <4>1 DEF Latest
      <4> QED
        BY <1>1, <1>5, <2>1, <3>1, <4>1, <4>2 DEF Latest, Known
    <3>4. CASE selectedTask # t
      <4>1. board'[selectedTask] = board[selectedTask] /\ (Known(selectedTask)' <=> Known(selectedTask))
        BY <1>1, <1>2, <3>2, <3>4 DEF Known
      <4> QED
        BY <1>1, <1>5, <2>1, <3>1, <4>1 DEF Latest
    <3> QED
      BY <3>3, <3>4
  <2> QED
    BY <1>1, <2>1 DEF PageInv, DialogFits
<1> QED
  BY <1>6, <1>7, <1>9, <1>10, <1>11, <1>12, <1>13, <1>14 DEF PageInv

\* An event is refused, or it or its answer is lost.
LEMMA FailFits ==
  ASSUME PageInv, NEW c \in calls, c.kind = "event",
         calls' = (calls \ {c}) \union {[c EXCEPT !.answer = Failed]},
         UNCHANGED <<board, old, page, boundaries, selectedTask, shown, activity,
                     sent, answered, doubts, blind, elsewhere, overlaps, own>>
  PROVE  /\ Numbers' /\ HistoryOfTask' /\ Ranks' /\ Overlapped' /\ BoardFits' /\ OneEvent'
         /\ DialogFits' /\ SureFits'
<1> DEFINE a == [c EXCEPT !.answer = Failed]
<1>0. calls \subseteq Call /\ c \in Call
  BY DEF PageInv, PageTypeOK
<1>1. Same(c, a) /\ a.answer = Failed /\ a.sure = c.sure
  BY <1>0, AnswerFields
<1>2. a.kind = "event" /\ a.task = c.task /\ a.n = c.n /\ a.event = c.event /\ a.styled = c.styled
  BY <1>0, <1>1 DEF Same
<1>a. calls' = (calls \ {c}) \union {a}
  OBVIOUS
<1> HIDE DEF a
<1>3. Events' = (Events \ {c}) \union {a} /\ Histories' = Histories /\ Reads' = Reads /\ c \in Events
  BY <1>0, <1>a, <1>2 DEF Events, Histories, Reads, Of
<1>4. Numbers' /\ HistoryOfTask' /\ Ranks'
  BY <1>a, <1>1, <1>2, <1>3 DEF PageInv, Numbers, HistoryOfTask, Ranks
<1>5. Overlapped'
  BY <1>2, <1>3 DEF PageInv, Overlapped, OwnEventShown
<1>6. BoardFits'
  BY <1>2, <1>3 DEF PageInv, BoardFits
<1>7. OneEvent'
  BY <1>1, <1>2, <1>3 DEF PageInv, OneEvent
<1>8. SureFits'
  BY <1>1, <1>2, <1>3, RowAssumption DEF PageInv, SureFits
<1>9. DialogFits'
  <2>1. ASSUME NEW k \in 0..sent, Latest(k) PROVE Latest(k)'
    BY <1>2, <1>3, <2>1 DEF Latest, Known
  <2> QED
    BY <2>1 DEF PageInv, DialogFits
<1> QED
  BY <1>4, <1>5, <1>6, <1>7, <1>8, <1>9

LEMMA ReadFits ==
  ASSUME PageInv, NEW c \in calls, read(c)
  PROVE  PageInv'
<1> DEFINE x == IF c.kind = "history" THEN history(c.task) ELSE board
           a == [c EXCEPT !.answer = x]
<1>0. /\ calls \subseteq Call /\ board \in [Task -> Row] /\ c \in Call /\ c.kind # "event" /\ c.answer = None
      /\ c.kind = "history" => c.task \in Task
  BY CallFields DEF PageInv, PageTypeOK, read
<1>1. /\ calls' = (calls \ {c}) \union {a}
      /\ UNCHANGED <<board, old, page, boundaries, selectedTask, shown, activity,
                     sent, answered, doubts, blind, elsewhere, overlaps, own>>
  BY DEF read
<1>2. Same(c, a) /\ a.answer = x
  BY <1>0, AnswerFields
<1> HIDE DEF a
<1>3. a.kind = c.kind /\ a.n = c.n /\ (c.kind = "history" => a.task = c.task)
  BY <1>2 DEF Same
<1>4. PageTypeOK' /\ Opened'
  BY PageBackendTyped DEF PageInv
<1>5. Events' = Events
  BY <1>0, <1>1, <1>3 DEF Events, Of
<1>6. Numbers'
  BY <1>1, <1>3 DEF PageInv, Numbers
<1>7. Ranks' /\ OneEvent' /\ SureFits'
  BY <1>1, <1>5 DEF PageInv, Ranks, OneEvent, SureFits
<1>8. CASE c.kind = "history"
  <2>1. /\ Reads' = Reads /\ Histories' = (Histories \ {c}) \union {a} /\ c \in Histories
        /\ x = history(c.task)
    BY <1>1, <1>3, <1>8 DEF Reads, Histories, Of
  <2>2. /\ x.task = c.task
        /\ c.task \notin old => x.state = board[c.task].state
    BY <1>0, <1>8, <2>1 DEF history, PageInv, Ranks
  <2>3. HistoryOfTask'
    BY <1>2, <1>3, <1>8, <2>1, <2>2 DEF PageInv, HistoryOfTask
  <2>4. Overlapped' /\ BoardFits'
    BY <1>1, <1>5, <2>1 DEF PageInv, Overlapped, BoardFits, OwnEventShown
  <2>5. ASSUME NEW k \in 0..sent, Latest(k) PROVE Latest(k)'
    BY <1>1, <1>2, <1>3, <1>5, <1>8, <2>1, <2>2, <2>5 DEF Latest, Known
  <2>6. DialogFits'
    BY <1>1, <2>5 DEF PageInv, DialogFits
  <2> QED
    BY <1>4, <1>6, <1>7, <2>3, <2>4, <2>6 DEF PageInv
<1>9. CASE c.kind # "history"
  <2>1. /\ Reads' = (Reads \ {c}) \union {a} /\ Histories' = Histories /\ c \in Reads /\ x = board
    BY <1>0, <1>1, <1>3, <1>9, CallFields DEF Reads, Histories, Of
  <2>2. HistoryOfTask'
    BY <2>1 DEF PageInv, HistoryOfTask
  <2>3. Overlapped'
    <3>1. \A t \in Task : board[t].ver >= own[t]
      <4>1. \A t \in Task : own[t] <= board[t].ver /\ board[t].ver \in Nat /\ own[t] \in Nat
        BY <1>0 DEF Row, PageInv, PageTypeOK, Ranks
      <4> QED
        BY <4>1
    <3> QED
      BY <1>1, <1>2, <1>5, <2>1, <3>1 DEF PageInv, Overlapped, OwnEventShown
  <2>4. BoardFits'
    BY <1>1, <1>2, <1>5, <2>1 DEF PageInv, BoardFits
  <2>5. ASSUME NEW k \in 0..sent, Latest(k) PROVE Latest(k)'
    BY <1>1, <1>5, <2>1, <2>5 DEF Latest, Known
  <2>6. DialogFits'
    BY <1>1, <2>5 DEF PageInv, DialogFits
  <2> QED
    BY <1>4, <1>6, <1>7, <2>2, <2>3, <2>4, <2>6 DEF PageInv
<1> QED
  BY <1>8, <1>9

LEMMA OtherEventFits ==
  ASSUME PageInv, NEW t \in Task, NEW e \in Event, other_event(t, e)
  PROVE  PageInv'
<1>0. /\ calls \subseteq Call /\ board \in [Task -> Row]
  BY DEF PageInv, PageTypeOK
<1>1. /\ board' = post(t, e, "other") /\ old' = old \ {t} /\ calls' = unsure(t)
      /\ blind' = blind \union {t} /\ elsewhere' = elsewhere \union {t}
      /\ UNCHANGED <<page, boundaries, selectedTask, shown, activity, sent, answered, doubts, overlaps, own>>
  BY DEF other_event
<1>2. /\ board' \in [Task -> Row] /\ board'[t].ver = board[t].ver + 1
      /\ \A u \in Task \ {t} : board'[u] = board[u]
  BY <1>0, <1>1, Posted
<1>3. Reads' = Reads /\ Histories' = Histories
  BY <1>0, <1>1, UnsureOthers DEF Reads, Histories, Of
<1>4. ASSUME NEW d \in Events'
      PROVE  \E c \in Events : /\ c.task = d.task /\ d.answer = c.answer /\ d.styled = c.styled
                               /\ d = c \/ (c.task = t /\ ~d.sure)
                               /\ d.task = t => ~d.sure
  <2>1. d \in unsure(t) /\ d.kind = "event"
    BY <1>1 DEF Events, Of
  <2>2. PICK c \in Events : /\ Same(c, d) /\ d.answer = c.answer /\ c.task = d.task
                            /\ d.styled = c.styled /\ d.event = c.event
                            /\ d = c \/ (c.task = t /\ ~d.sure)
                            /\ d.task = t => ~d.sure
    BY <1>0, <2>1, UnsureEvents
  <2> QED
    BY <2>2, Zenon
<1>5. \A d \in Events' : d.task # t => d \in Events
  BY <1>4
<1>6. \A c \in Events : c.task # t => c \in Events'
  BY <1>1 DEF Events, Of, unsure
<1>7. PageTypeOK' /\ Opened'
  BY PageBackendTyped DEF PageInv
<1>8. Numbers' /\ HistoryOfTask'
  <2>1. ASSUME NEW d \in calls' PROVE d.n <= sent
    <3>1. PICK c \in calls : Same(c, d)
      BY <1>0, <1>1, UnsureSet
    <3> QED
      BY <3>1 DEF PageInv, Numbers, Same
  <2> QED
    BY <1>1, <1>3, <2>1 DEF PageInv, Numbers, HistoryOfTask
<1>9. \A u \in Task : board[u].ver \in Nat /\ own[u] \in Nat /\ board'[u].ver \in Nat
  BY <1>0, <1>2 DEF Row, PageInv, PageTypeOK
<1>10. Ranks'
  <2>1. \A u \in Task : /\ own[u] <= board'[u].ver
                        /\ board'[u].ver = 0 => board'[u].state = "UNLOCKED_TO_MAP"
                        /\ u \in old' => board'[u].ver # 0
    BY <1>1, <1>2, <1>9 DEF PageInv, Ranks
  <2>2. ASSUME NEW d \in Events', d.answer \notin {None, Failed} PROVE d.answer.ver <= board'[d.task].ver
    <3>1. PICK c \in Events : c.task = d.task /\ d.answer = c.answer
      BY <1>4
    <3>2. c.task \in Task /\ c.answer \in Row
      BY <1>0, <2>2, <3>1, CallFields DEF Events, Of
    <3>3. c.answer.ver \in Nat /\ c.answer.ver <= board[c.task].ver
      BY <2>2, <3>1, <3>2 DEF Row, PageInv, Ranks
    <3>4. board[c.task].ver <= board'[c.task].ver
      BY <1>2, <1>9, <3>2
    <3> QED
      BY <1>9, <3>1, <3>2, <3>3, <3>4
  <2> QED
    BY <1>1, <2>1, <2>2 DEF Ranks
<1>11. Overlapped'
  <2>1. \A d \in Events' : d.styled \/ page.name = "table" \/ d.task \in overlaps
    <3>1. ASSUME NEW d \in Events' PROVE d.styled \/ page.name = "table" \/ d.task \in overlaps
      <4>1. PICK c \in Events : c.task = d.task /\ d.styled = c.styled
        BY <1>4
      <4> QED
        BY <4>1 DEF PageInv, Overlapped
    <3> QED
      BY <3>1
  <2>2. Reads # {} => \A d \in Events' : d.task \in overlaps
    BY <1>4 DEF PageInv, Overlapped
  <2> QED
    BY <1>1, <1>3, <2>1, <2>2 DEF PageInv, Overlapped, OwnEventShown
<1>12. BoardFits'
  <2>1. ASSUME page.name = "table", NEW d \in Events', d.styled PROVE d.task \in overlaps
    <3>1. PICK c \in Events : c.task = d.task /\ d.styled = c.styled
      BY <1>4
    <3> QED
      BY <2>1, <3>1 DEF PageInv, BoardFits
  <2> QED
    BY <1>1, <1>2, <1>3, <1>6, <2>1 DEF PageInv, BoardFits
<1>13. OneEvent'
  BY <1>0, <1>1, <1>2, <1>5, CallFields DEF PageInv, OneEvent, Events, Of
<1>14. SureFits'
  <2> SUFFICES ASSUME NEW d \in Events', d.sure
               PROVE  /\ \A b \in Events' : b.task = d.task => b = d
                      /\ d.answer = None => d.event \in actions[board'[d.task].state]
    BY DEF SureFits
  <2>1. d.task # t
    BY <1>4
  <2>2. d \in Events /\ d.task \in Task
    BY <1>0, <1>5, <2>1, CallFields DEF Events, Of
  <2> QED
    BY <1>2, <1>5, <2>1, <2>2 DEF PageInv, SureFits
<1>15. DialogFits'
  <2>1. ASSUME shown = "task", NEW k \in 0..sent, Latest(k) PROVE Latest(k)'
    <3>1. selectedTask \in Task
      BY <2>1 DEF PageInv, Opened
    <3>2. CASE selectedTask = t
      BY <1>1, <1>3, <2>1, <3>2 DEF Latest, Known
    <3>3. CASE selectedTask # t
      <4>1. board'[selectedTask] = board[selectedTask] /\ (Known(selectedTask)' <=> Known(selectedTask))
        BY <1>1, <1>2, <3>1, <3>3 DEF Known
      <4>2. (\A d \in Events' : d.task # selectedTask) <=> (\A d \in Events : d.task # selectedTask)
        BY <1>5, <1>6, <3>3
      <4>3. selectedTask \notin blind' <=> selectedTask \notin blind
        BY <1>1, <3>3
      <4> QED
        BY <1>1, <1>3, <2>1, <4>1, <4>2, <4>3 DEF Latest
    <3> QED
      BY <3>2, <3>3
  <2> QED
    BY <1>1, <2>1 DEF PageInv, DialogFits
<1> QED
  BY <1>7, <1>8, <1>10, <1>11, <1>12, <1>13, <1>14, <1>15 DEF PageInv

LEMMA TenDaysFits ==
  ASSUME PageInv, ten_days_pass
  PROVE  PageInv'
<1>1. /\ calls = {} /\ calls' = {} /\ old' = {t \in Task : board[t].ver > 0} /\ blind' = blind \union old'
      /\ UNCHANGED <<board, page, boundaries, selectedTask, shown, activity, sent, answered, doubts,
                     elsewhere, overlaps, own>>
  BY DEF ten_days_pass
<1>2. Events = {} /\ Events' = {} /\ Reads = {} /\ Reads' = {} /\ Histories = {} /\ Histories' = {}
  BY <1>1 DEF Events, Reads, Histories, Of
<1>3. PageTypeOK' /\ Opened'
  BY PageBackendTyped DEF PageInv
<1>4. \A t \in Task : board[t].ver \in Nat
  BY DEF Row, PageInv, PageTypeOK
<1>5. Ranks'
  BY <1>1, <1>2, <1>4 DEF PageInv, Ranks
<1>6. Numbers' /\ HistoryOfTask' /\ OneEvent' /\ SureFits'
  BY <1>1, <1>2 DEF Numbers, HistoryOfTask, OneEvent, SureFits
<1>7. Overlapped' /\ BoardFits'
  BY <1>1, <1>2 DEF PageInv, Overlapped, BoardFits, OwnEventShown
<1>8. old \subseteq old'
  <2>1. ASSUME NEW t \in old PROVE t \in old'
    <3>1. t \in Task
      BY DEF PageInv, PageTypeOK
    <3>2. board[t].ver \in Nat /\ board[t].ver # 0
      BY <1>4, <3>1 DEF PageInv, Ranks
    <3>3. board[t].ver > 0
      BY <3>2
    <3> QED
      BY <1>1, <3>1, <3>3
  <2> QED
    BY <2>1
<1>9. DialogFits'
  <2>1. ASSUME NEW k \in 0..sent, Latest(k) PROVE Latest(k)'
    BY <1>1, <1>2, <1>8, <2>1 DEF Latest, Known
  <2> QED
    BY <1>1, <2>1 DEF PageInv, DialogFits
<1> QED
  BY <1>3, <1>5, <1>6, <1>7, <1>9 DEF PageInv

-----------------------------------------------------------------------------
(* Answers. *)

LEMMA EventAnsweredFits ==
  ASSUME PageInv, NEW c \in calls, event_answered(c)
  PROVE  PageInv'
<1> DEFINE t == c.task
           p == IF c.styled THEN Table(c.task) ELSE Project
           leaves == (~c.styled \/ c.event = "VALIDATE") /\ page.name # p.name
<1>0. /\ calls \subseteq Call /\ c \in Call /\ c.kind = "event" /\ c.answer # None
      /\ t \in Task /\ c.answer \in Row \union {Failed} /\ c \in Events /\ own \in [Task -> Nat]
      /\ boundaries \in [Task -> Row] \union {None} /\ board \in [Task -> Row]
  BY CallFields DEF PageInv, PageTypeOK, event_answered, Events, Of
<1>1. UNCHANGED <<board, old, selectedTask, answered>>
  BY DEF event_answered
<1>2. \/ /\ c.answer = Failed
         /\ UNCHANGED <<activity, own, doubts>> /\ blind' = blind \union {t}
      \/ /\ c.answer # Failed /\ c.answer \in Row
         /\ activity' = [task |-> t, state |-> c.answer.state]
         /\ own' = [own EXCEPT ![t] = c.answer.ver]
         /\ doubts' = IF t = selectedTask THEN doubts ELSE doubts \union {"moved on"}
         /\ UNCHANGED blind
  BY <1>0 DEF event_answered, UpdateProjectTaskActivity
<1>3. blind \subseteq blind'
  BY <1>2
<1>4. \A u \in Task : own'[u] = own[u] \/ (own'[u] <= board[u].ver /\ \E d \in Events : d.task = u)
  BY <1>0, <1>2 DEF PageInv, Ranks
<1>5. PageTypeOK' /\ Opened'
  BY EventAnsweredTyped DEF PageInv
<1>6. CASE leaves
  <2>1. navigate(p, calls \ {c})
    BY <1>6 DEF event_answered
  <2>2. read_board(calls \ {c}, "project") /\ boundaries' = None /\ shown' = "nothing"
    BY <1>6, <2>1 DEF navigate
  <2>3. \A d \in calls : d.kind # "event" => d \in calls \ {c}
    BY <1>0
  <2>4. calls \ {c} \in SUBSET calls
    OBVIOUS
  <2> QED
    BY <1>1, <1>3, <1>4, <1>5, <2>2, <2>3, <2>4, OpenFits DEF PageInv
<1>7. CASE ~leaves
  <2>1. /\ calls' = calls \ {c} /\ UNCHANGED <<page, shown, sent, elsewhere, overlaps>>
        /\ boundaries' = IF c.styled /\ c.answer # Failed
                         THEN UpdateProjectTaskBoundries(t, c.answer) ELSE boundaries
    BY <1>7 DEF event_answered
  <2>2. Events' = Events \ {c} /\ Histories' = Histories /\ Reads' = Reads
    BY <1>0, <2>1 DEF Events, Histories, Reads, Of
  <2>3. ~c.styled => page.name = "project"
    BY <1>7 DEF Project
  <2>4. ~c.styled => t \in overlaps
    BY <1>0, <2>3 DEF PageInv, Overlapped
  <2>5. page.name = "table" => t \in overlaps
    BY <1>0, <2>3 DEF PageInv, BoardFits
  <2>6. /\ boundaries' # None => boundaries # None
        /\ boundaries # None => \A u \in Task \ {t} : boundaries'[u] = boundaries[u]
    BY <1>0, <2>1 DEF UpdateProjectTaskBoundries
  <2>7. Numbers' /\ HistoryOfTask' /\ OneEvent' /\ SureFits'
    BY <1>1, <1>3, <2>1, <2>2 DEF PageInv, Numbers, HistoryOfTask, OneEvent, SureFits
  <2>8. Ranks'
    BY <1>0, <1>1, <1>2, <2>2 DEF PageInv, Ranks
  <2>9. Overlapped'
    <3>1. ASSUME NEW d \in Reads, d.answer # None, NEW u \in Task \ overlaps PROVE d.answer[u].ver >= own'[u]
      <4>1. u # t
        BY <1>0, <3>1 DEF PageInv, Overlapped
      <4>2. own'[u] = own[u]
        BY <1>0, <1>2, <4>1
      <4> QED
        BY <3>1, <4>2 DEF PageInv, Overlapped
    <3>2. ASSUME boundaries' # None, NEW u \in Task \ overlaps PROVE boundaries'[u].ver >= own'[u]
      <4>1. CASE u # t
        BY <1>0, <1>2, <2>6, <3>2, <4>1 DEF PageInv, Overlapped, OwnEventShown
      <4>2. CASE u = t /\ c.answer = Failed
        BY <1>2, <2>1, <3>2, <4>2 DEF PageInv, Overlapped, OwnEventShown
      <4>3. CASE u = t /\ c.answer # Failed
        <5>1. boundaries' = [boundaries EXCEPT ![t] = c.answer] /\ boundaries \in [Task -> Row]
          BY <1>0, <2>1, <2>4, <3>2, <4>3 DEF UpdateProjectTaskBoundries
        <5>2. own'[u] = c.answer.ver /\ c.answer.ver \in Nat /\ boundaries'[u] = c.answer
          BY <1>0, <1>2, <4>3, <5>1 DEF Row
        <5> QED
          BY <5>2
      <4> QED
        BY <4>1, <4>2, <4>3
    <3> QED
      BY <2>1, <2>2, <3>1, <3>2 DEF PageInv, Overlapped, OwnEventShown
  <2>10. BoardFits'
    BY <1>1, <2>1, <2>2, <2>5, <2>6 DEF PageInv, BoardFits
  <2>11. DialogFits'
    <3>1. ASSUME shown = "task", NEW k \in 0..sent, Latest(k) PROVE Latest(k)'
      <4>1. \A d \in Events' : d \in Events
        BY <2>2
      <4>2. Known(selectedTask)' => Known(selectedTask)
        BY <1>1, <1>3 DEF Known
      <4>3. ASSUME NEW d \in Histories', d.n = k
            PROVE  /\ d.task = selectedTask'
                   /\ selectedTask' \notin blind' => \A b \in Events' : b.task # selectedTask'
                   /\ d.answer # None /\ Known(selectedTask)' => d.answer.state = board'[selectedTask'].state
        BY <1>1, <1>3, <2>2, <3>1, <4>1, <4>2, <4>3 DEF Latest
      <4>4. ASSUME answered = k, doubts' = {}
            PROVE  /\ activity'.task = selectedTask
                   /\ Known(selectedTask)' /\ (\A d \in Events' : d.task # selectedTask) =>
                        activity'.state = board[selectedTask].state
        <5>1. CASE c.answer = Failed
          <6>1. Known(selectedTask)' => t # selectedTask
            BY <1>1, <1>2, <5>1 DEF Known
          <6> QED
            BY <1>2, <2>2, <3>1, <4>2, <4>4, <5>1, <6>1 DEF Latest
        <5>2. CASE c.answer # Failed
          <6>1. t = selectedTask
            BY <1>2, <4>4, <5>2
          <6>2. t \notin blind => c.answer.state = board[t].state
            BY <1>0, <5>2 DEF PageInv, OneEvent
          <6> QED
            BY <1>1, <1>2, <5>2, <6>1, <6>2 DEF Known
        <5> QED
          BY <5>1, <5>2
      <4> QED
        BY <1>1, <2>1, <2>2, <3>1, <4>3, <4>4 DEF Latest
    <3> QED
      BY <2>1, <3>1 DEF PageInv, DialogFits
  <2> QED
    BY <1>5, <2>7, <2>8, <2>9, <2>10, <2>11 DEF PageInv
<1> QED
  BY <1>6, <1>7

\* A history comes, or is lost.
LEMMA HistoryEnds ==
  ASSUME PageInv, NEW c \in calls, c.kind = "history",
         calls' = calls \ {c},
         UNCHANGED <<board, old, page, boundaries, selectedTask, shown, sent, blind, elsewhere, overlaps, own>>,
         \/ history_answered(c)
         \/ lose(c)
  PROVE  /\ Numbers' /\ HistoryOfTask' /\ Ranks' /\ Overlapped' /\ BoardFits' /\ OneEvent'
         /\ DialogFits' /\ SureFits'
<1>0. c \in Call /\ sent \in Nat /\ answered \in 0..sent /\ c.n \in Nat
      /\ \A d \in Histories : d.n \in Nat
  BY CallFields DEF PageInv, PageTypeOK, Histories, Of
<1>1. Events' = Events /\ Reads' = Reads /\ Histories' = Histories \ {c} /\ c \in Histories
  BY DEF Events, Reads, Histories, Of
<1>2. Numbers' /\ HistoryOfTask' /\ Ranks' /\ OneEvent' /\ SureFits'
  BY <1>1 DEF PageInv, Numbers, HistoryOfTask, Ranks, OneEvent, SureFits
<1>3. Overlapped' /\ BoardFits'
  BY <1>1 DEF PageInv, Overlapped, BoardFits, OwnEventShown
<1>4. /\ answered' = IF c.n > answered THEN c.n ELSE answered
      /\ c.n > answered => doubts' # {} \/ (activity' = c.answer /\ c.answer # None)
      /\ ~(c.n > answered) => doubts' # {} \/ UNCHANGED <<doubts, activity>>
  <2>1. CASE history_answered(c)
    BY <2>1 DEF history_answered
  <2>2. CASE lose(c)
    BY <2>2 DEF lose
  <2> QED
    BY <2>1, <2>2
<1>5. ASSUME NEW k \in 0..sent, Latest(k) PROVE Latest(k)'
  <2>1. answered' <= k
    BY <1>0, <1>1, <1>4, <1>5 DEF Latest
  <2>2. ASSUME answered' < k PROVE \E d \in Histories' : d.n = k
    <3>1. answered < k /\ c.n # k
      BY <1>0, <1>4, <2>2
    <3> QED
      BY <1>1, <1>5, <3>1 DEF Latest
  <2>3. ASSUME answered' = k, doubts' = {}
        PROVE  /\ activity'.task = selectedTask
               /\ Known(selectedTask) /\ (\A d \in Events : d.task # selectedTask) =>
                    activity'.state = board[selectedTask].state
    <3>1. CASE c.n > answered
      <4>1. c.n = k /\ activity' = c.answer /\ c.answer # None
        BY <1>4, <2>3, <3>1
      <4> QED
        BY <1>1, <1>5, <4>1 DEF Latest, PageInv, HistoryOfTask
    <3>2. CASE ~(c.n > answered)
      BY <1>4, <1>5, <2>3, <3>2 DEF Latest
    <3> QED
      BY <3>1, <3>2
  <2> QED
    BY <1>1, <1>5, <2>1, <2>2, <2>3 DEF Latest, Known
<1>6. DialogFits'
  BY <1>5 DEF PageInv, DialogFits
<1> QED
  BY <1>2, <1>3, <1>6

\* An answer to a read of the board comes, or is lost.
LEMMA BoardEnds ==
  ASSUME PageInv, NEW c \in calls, c.kind \in {"project", "sync"},
         calls' = calls \ {c},
         UNCHANGED <<board, old, page, selectedTask, shown, sent, blind, elsewhere, overlaps, own,
                     answered, doubts, activity>>,
         boundaries' = boundaries \/ boundaries' = None \/ (boundaries' = c.answer /\ c.answer # None)
  PROVE  /\ Numbers' /\ HistoryOfTask' /\ Ranks' /\ Overlapped' /\ BoardFits' /\ OneEvent'
         /\ DialogFits' /\ SureFits'
<1>1. Events' = Events /\ Histories' = Histories /\ Reads' = Reads \ {c} /\ c \in Reads
  BY DEF Events, Reads, Histories, Of
<1>2. Numbers' /\ HistoryOfTask' /\ Ranks' /\ OneEvent' /\ SureFits'
  BY <1>1 DEF PageInv, Numbers, HistoryOfTask, Ranks, OneEvent, SureFits
<1>3. Overlapped'
  BY <1>1 DEF PageInv, Overlapped, OwnEventShown
<1>4. BoardFits'
  BY <1>1 DEF PageInv, BoardFits
<1>5. ASSUME NEW k \in 0..sent, Latest(k) PROVE Latest(k)'
  BY <1>1, <1>5 DEF Latest, Known
<1>6. DialogFits'
  BY <1>5 DEF PageInv, DialogFits
<1> QED
  BY <1>2, <1>3, <1>4, <1>6

-----------------------------------------------------------------------------
(* Every step of the project page. *)

\* What the dialog offers fits, when the event is certain.
LEMMA DialogEventFits ==
  ASSUME PageInv, NEW e \in Event, handleOnClick(e)
  PROVE  PageInv'
<1> DEFINE t == selectedTask
           certain_event == t \notin blind \union old /\ doubts = {}
                              /\ ~\E c \in calls : c.kind \in {"history", "event"} /\ c.task = t
<1>0. t \in Task /\ calls \subseteq Call /\ page.name = "project" /\ shown = "task"
  <2>1. Opened /\ PageTypeOK
    BY DEF PageInv
  <2>2. page = Project /\ shown = "task"
    BY DEF handleOnClick
  <2> QED
    BY <2>1, <2>2 DEF Opened, PageTypeOK, Project
<1>1. CreateTaskEvent(t, e, TRUE, certain_event)
  BY DEF handleOnClick
<1>2. certain_event \in BOOLEAN
  BY Zenon
<1>3. ASSUME certain_event PROVE (\A c \in Events : c.task # t) /\ e \in actions[board[t].state]
  <2>1. /\ Known(t) /\ doubts = {}
        /\ \A c \in calls : c.kind \in {"history", "event"} => c.task # t
    BY <1>3 DEF Known
  <2>2. \A c \in Events : c.task # t
    BY <2>1 DEF Events, Of
  <2>3. PICK k \in 0..sent : Latest(k)
    BY <1>0 DEF PageInv, DialogFits
  <2>4. \A c \in Histories : c.n # k
    BY <2>1, <2>3 DEF Latest, Histories, Of
  <2>5. answered <= k /\ ~(answered < k)
    BY <2>3, <2>4 DEF Latest
  <2>6. answered \in 0..sent /\ sent \in Nat
    BY DEF PageInv, PageTypeOK
  <2>7. answered = k
    BY <2>3, <2>5, <2>6
  <2>8. activity.state = board[t].state
    BY <2>1, <2>2, <2>3, <2>7 DEF Latest
  <2>9. e \in actions[activity.state]
    BY DEF handleOnClick, offered
  <2> QED
    BY <2>2, <2>8, <2>9
<1>4. UNCHANGED <<board, old, page, boundaries, selectedTask, shown, activity, answered, doubts,
                  elsewhere, own>>
  BY DEF handleOnClick
<1>5. PageTypeOK' /\ Opened'
  BY PageUserTyped DEF PageInv
<1> HIDE DEF certain_event
<1>6. TRUE \in BOOLEAN
  OBVIOUS
<1> QED
  BY <1>0, <1>1, <1>2, <1>3, <1>4, <1>5, <1>6, SendFits DEF PageInv

\* MARK AS VALIDATED is offered for what the copy of the board shows.
LEMMA TableEventFits ==
  ASSUME PageInv, handleTaskMap
  PROVE  PageInv'
<1> DEFINE t == page.task_id
           certain_event == t \notin elsewhere \union overlaps /\ ~\E c \in Of("event") : c.task = t
<1>0. /\ t \in Task /\ page.name = "table" /\ boundaries # None
      /\ boundaries[t].state = "LOCKED_FOR_VALIDATION"
  BY DEF PageInv, PageTypeOK, handleTaskMap, Page
<1>1. CreateTaskEvent(t, "GOOD", FALSE, certain_event) /\ "GOOD" \in Event
  BY DEF handleTaskMap, Event
<1>2. certain_event \in BOOLEAN /\ FALSE \in BOOLEAN
  BY Zenon
<1>3. ASSUME certain_event PROVE (\A c \in Events : c.task # t) /\ "GOOD" \in actions[board[t].state]
  <2>1. t \notin elsewhere \union overlaps /\ \A c \in Events : c.task # t
    BY <1>3 DEF Events
  <2>2. boundaries[t] = board[t]
    BY <1>0, <2>1 DEF PageInv, BoardFits
  <2> QED
    BY <1>0, <2>1, <2>2 DEF actions
<1>4. UNCHANGED <<board, old, page, boundaries, selectedTask, shown, activity, answered, doubts,
                  elsewhere, own>>
  BY DEF handleTaskMap
<1>5. PageTypeOK' /\ Opened'
  BY PageUserTyped DEF PageInv
<1> HIDE DEF certain_event
<1> QED
  BY <1>0, <1>1, <1>2, <1>3, <1>4, <1>5, SendFits DEF PageInv

LEMMA QuietSteps ==
  ASSUME PageInv, projectClickOnTaskFeature \/ close_popup \/ \E r \in Rights : change_rights(r)
  PROVE  PageInv'
<1>1. PageTypeOK' /\ Opened'
  BY PageUserTyped, PageBackendTyped DEF PageInv
<1>2. /\ UNCHANGED <<calls, sent, answered, board, own, old, boundaries, activity, doubts, blind,
                     elsewhere, overlaps>>
      /\ page'.name = page.name
      /\ shown' # "task" \/ UNCHANGED <<shown, selectedTask>>
  BY DEF projectClickOnTaskFeature, close_popup, change_rights
<1> QED
  BY <1>1, <1>2, Quiet DEF PageInv

LEMMA LostFits ==
  ASSUME PageInv, NEW c \in calls, lose(c)
  PROVE  PageInv'
<1>0. c.kind \in {"project", "sync", "history", "event"}
  BY CallFields DEF PageInv, PageTypeOK
<1>1. PageTypeOK' /\ Opened'
  BY PageAnswerTyped DEF PageInv
<1>2. CASE c.kind = "event"
  <2>1. /\ calls' = (calls \ {c}) \union {[c EXCEPT !.answer = Failed]}
        /\ UNCHANGED <<board, old, page, boundaries, selectedTask, shown, activity,
                       sent, answered, doubts, blind, elsewhere, overlaps, own>>
    BY <1>2 DEF lose
  <2> QED
    BY <1>1, <1>2, <2>1, FailFits DEF PageInv
<1>3. CASE c.kind = "history"
  <2>1. /\ calls' = calls \ {c}
        /\ UNCHANGED <<board, old, page, boundaries, selectedTask, shown, sent, blind, elsewhere,
                       overlaps, own>>
    BY <1>3 DEF lose
  <2> QED
    BY <1>1, <1>3, <2>1, HistoryEnds DEF PageInv
<1>4. CASE c.kind \in {"project", "sync"}
  <2>1. /\ calls' = calls \ {c} /\ boundaries' = boundaries
        /\ UNCHANGED <<board, old, page, selectedTask, shown, sent, blind, elsewhere, overlaps, own,
                       answered, doubts, activity>>
    BY <1>4 DEF lose
  <2> QED
    BY <1>1, <1>4, <2>1, BoardEnds DEF PageInv
<1> QED
  BY <1>0, <1>2, <1>3, <1>4

LEMMA AnswersFit ==
  ASSUME PageInv, NEW c \in calls, history_answered(c) \/ ProjectById(c) \/ SyncTaskState(c)
  PROVE  PageInv'
<1>1. PageTypeOK' /\ Opened'
  BY PageAnswerTyped DEF PageInv
<1>2. CASE history_answered(c)
  <2>1. /\ c.kind = "history" /\ calls' = calls \ {c}
        /\ UNCHANGED <<board, old, page, boundaries, selectedTask, shown, sent, blind, elsewhere,
                       overlaps, own>>
    BY <1>2 DEF history_answered
  <2> QED
    BY <1>1, <1>2, <2>1, HistoryEnds DEF PageInv
<1>3. CASE ProjectById(c) \/ SyncTaskState(c)
  <2>1. /\ c.kind \in {"project", "sync"} /\ calls' = calls \ {c} /\ c.answer # None
        /\ UNCHANGED <<board, old, page, selectedTask, shown, sent, blind, elsewhere, overlaps, own,
                       answered, doubts, activity>>
    BY <1>3 DEF ProjectById, SyncTaskState, board_answered
  <2>2. boundaries' = None \/ boundaries' = c.answer
    BY <1>3 DEF ProjectById, SyncTaskState, board_answered
  <2> QED
    BY <1>1, <2>1, <2>2, BoardEnds DEF PageInv
<1> QED
  BY <1>2, <1>3

LEMMA PageStep ==
  ASSUME PageInv, PageNext
  PROVE  PageInv'
<1>1. CASE visit(Project) \/ visit(Table(NoTask))
  BY <1>1, VisitFits
<1>2. CASE \E t \in Task : projectClickOnTaskArea(t)
  BY <1>2, ClickFits
<1>3. CASE projectClickOnTaskFeature \/ close_popup \/ \E r \in Rights : change_rights(r)
  BY <1>3, QuietSteps
<1>4. CASE \E e \in Event : handleOnClick(e)
  BY <1>4, DialogEventFits
<1>5. CASE handleTaskMap \/ syncStatus \/ ten_days_pass
  BY <1>5, TableEventFits, SyncFits, TenDaysFits
<1>6. CASE \E t \in Task, e \in Event : other_event(t, e)
  BY <1>6, OtherEventFits
<1>7. ASSUME NEW c \in calls, add_new_task_event(c) PROVE PageInv'
  <2>1. CASE mapper(rights)
    BY <1>7, <2>1, CommitFits
  <2>2. CASE ~mapper(rights)
    <3>1. /\ c.kind = "event" /\ calls' = (calls \ {c}) \union {[c EXCEPT !.answer = Failed]}
          /\ UNCHANGED <<board, old, page, boundaries, selectedTask, shown, activity,
                         sent, answered, doubts, blind, elsewhere, overlaps, own>>
      BY <1>7, <2>2 DEF add_new_task_event
    <3>2. PageTypeOK' /\ Opened'
      BY <1>7, PageBackendTyped DEF PageInv
    <3> QED
      BY <3>1, <3>2, FailFits DEF PageInv
  <2> QED
    BY <2>1, <2>2
<1>8. CASE \E c \in calls : \/ read(c) \/ lose(c) \/ event_answered(c)
                            \/ history_answered(c) \/ ProjectById(c) \/ SyncTaskState(c)
  BY <1>8, ReadFits, LostFits, EventAnsweredFits, AnswersFit
<1> QED
  BY <1>1, <1>2, <1>3, <1>4, <1>5, <1>6, <1>7, <1>8 DEF PageNext

LEMMA PageStart == PageInit => PageInv
<1> SUFFICES ASSUME PageInit PROVE PageInv
  OBVIOUS
<1> DEFINE first == [n |-> sent, kind |-> "project", answer |-> None]
<1>0. MaxSent \in Nat \ {0} /\ MaxOwn \in Nat /\ MaxOthers \in Nat
  BY PageAssumption
<1>1. sent \in 1..MaxSent /\ sent \in Nat /\ answered = 0 /\ answered \in 0..sent
  <2>1. sent \in 1..MaxSent /\ answered = 0
    BY DEF PageInit
  <2> QED
    BY <1>0, <2>1
<1>2. first \in Call /\ calls = {first}
  BY <1>1, BoardCall DEF PageInit
<1>3. first.n = sent /\ first.kind = "project" /\ first.answer = None
  OBVIOUS
<1> HIDE DEF first
<1>4. Events = {} /\ Histories = {} /\ Reads = {first}
  BY <1>2, <1>3 DEF Events, Histories, Reads, Of
<1>5. ASSUME NEW t \in Task
      PROVE  /\ board[t] \in Row /\ own[t] = 0 /\ board[t].ver \in Nat
             /\ board[t].ver = 0 => board[t].state = "UNLOCKED_TO_MAP"
  BY DEF PageInit, Row, Log!MappingState
<1>6. board \in [Task -> Row]
  <2>1. board \in [Task -> {[state |-> "UNLOCKED_TO_MAP", actor |-> None, ver |-> 0],
                           [state |-> "UNLOCKED_TO_VALIDATE", actor |-> "other", ver |-> 1]}]
    BY DEF PageInit
  <2>2. board = [t \in Task |-> board[t]]
    BY <2>1
  <2> QED
    BY <1>5, <2>2
<1>7. page \in Page /\ rights \in Rights /\ authDetails \in Rights
  BY Pages1 DEF PageInit
<1>8. activity \in Newest
  BY DEF PageInit, Newest, Log!MappingState
<1>9. PageTypeOK
  <2>1. /\ boundaries \in [Task -> Row] \union {None} /\ selectedTask \in Task \union {NoTask}
        /\ old \subseteq Task /\ shown \in {"nothing", "task", "feature"} /\ loading \in BOOLEAN
        /\ doubts \subseteq {"crossed", "lost", "moved on"}
        /\ blind \subseteq Task /\ elsewhere \subseteq Task /\ overlaps \subseteq Task
    BY DEF PageInit
  <2>2. own \in [Task -> Nat]
    BY DEF PageInit
  <2>3. events \in 0..MaxOwn /\ others \in 0..MaxOthers
    BY <1>0 DEF PageInit
  <2>4. calls \subseteq Call
    BY <1>2
  <2> QED
    BY <1>1, <1>6, <1>7, <1>8, <2>1, <2>2, <2>3, <2>4 DEF PageTypeOK
<1>10. shown = "nothing" /\ old = {} /\ boundaries = None
  BY DEF PageInit
<1>11. Numbers
  BY <1>1, <1>2, <1>3 DEF Numbers
<1>12. Opened /\ HistoryOfTask /\ OneEvent /\ SureFits /\ DialogFits
  BY <1>4, <1>10 DEF Opened, HistoryOfTask, OneEvent, SureFits, DialogFits
<1>13. Ranks
  <2>1. \A t \in Task : own[t] <= board[t].ver
    BY <1>5
  <2> QED
    BY <1>4, <1>5, <1>10, <2>1 DEF Ranks
<1>14. Overlapped /\ BoardFits
  BY <1>3, <1>4, <1>10 DEF Overlapped, OwnEventShown, BoardFits
<1> QED
  BY <1>9, <1>11, <1>12, <1>13, <1>14 DEF PageInv

\* Both copies are current whenever the invariant holds.
LEMMA CopiesFit == PageInv => CopiesCurrent
<1> SUFFICES ASSUME PageInv PROVE CopiesCurrent
  OBVIOUS
<1>1. OwnEventShown
  BY DEF PageInv, Overlapped
<1>2. ASSUME shown = "task", Of("history") = {}, doubts = {} PROVE activity.task = selectedTask
  <2>1. PICK k \in 0..sent : Latest(k)
    BY <1>2 DEF PageInv, DialogFits
  <2>2. Histories = {} /\ answered \in 0..sent /\ sent \in Nat
    BY <1>2 DEF Histories, PageInv, PageTypeOK
  <2>3. answered <= k /\ ~(answered < k)
    BY <2>1, <2>2 DEF Latest
  <2>4. answered = k
    BY <2>1, <2>2, <2>3
  <2> QED
    BY <1>2, <2>1, <2>4 DEF Latest
<1> QED
  BY <1>1, <1>2 DEF CopiesCurrent, DialogOfTask

-----------------------------------------------------------------------------
(* What holds of the review. *)

ModalTypeOK ==
  /\ modal \in [sub : Sub, state : ReviewState] \union {NoSub}
  /\ reviewStatus \in ReviewState
  /\ badGeomLogList \subseteq GeomRow
  /\ asked \in Nat
  /\ logCalls \subseteq [n : 1..asked, answer : (SUBSET GeomRow) \union {None}]

ReviewTypeOK ==
  /\ updating \in Update \union {None}
  /\ writes \subseteq Write
  /\ reviews \in 0..MaxReviews
  /\ reviewState \in [Sub -> ReviewState]
  /\ status \in [Entity -> {"SURVEY_SUBMITTED", "VALIDATED", "MARKED_BAD"}]
  /\ geometrylog \subseteq GeomRow
  /\ verdict \in [Entity -> [sub : Sub, verdict : Verdict] \union {None}]

WritesOf(e) == {w \in writes : EntityOf[w.sub] = e}

\* The first request of the review v of the entity e is under way, and nothing else.
Awaited(e, v) ==
  /\ updating.sub = v.sub /\ updating.verdict = v.verdict
  /\ updating.answer # "failed" /\ WritesOf(e) = {}
  /\ updating.answer = "done" => reviewState[v.sub] = v.verdict
  /\ v.verdict = "approved" => /\ RowsOf(updating.list, e) = RowsOf(geometrylog, e)
                               /\ \A g, h \in RowsOf(geometrylog, e) : g = h

\* The rest of it is under way or done.
Written(e, v) ==
  /\ reviewState[v.sub] = v.verdict
  /\ \A w \in WritesOf(e) : w.sub = v.sub /\ w.verdict = v.verdict
  /\ \/ \E w \in WritesOf(e) : w.kind = "status"
     \/ status[e] = IF v.verdict = "approved" THEN "VALIDATED" ELSE "MARKED_BAD"
  /\ v.verdict = "hasIssues" =>
       /\ \A w \in WritesOf(e) : w.kind # "delete"
       /\ (\E w \in WritesOf(e) : w.kind = "post") \/ RowsOf(geometrylog, e) # {}
  /\ v.verdict = "approved" =>
       /\ \A w \in WritesOf(e) : w.kind # "post"
       /\ \A g \in RowsOf(geometrylog, e) : \E w \in WritesOf(e) : w.kind = "delete" /\ w.row = g

\* The review in verdict is the last one of its entity, and goes on or is done.
ReviewOf(e) ==
  verdict[e] # None =>
    /\ EntityOf[verdict[e].sub] = e
    /\ IF updating # None /\ EntityOf[updating.sub] = e THEN Awaited(e, verdict[e])
                                                       ELSE Written(e, verdict[e])

ReviewInv ==
  /\ ReviewTypeOK
  /\ \A w \in writes : w.kind = "delete" => w.row.entity = EntityOf[w.sub]
  /\ IsFiniteSet(geometrylog)
  /\ \A e \in Entity : ReviewOf(e)

-----------------------------------------------------------------------------
(* What holds of the table. *)

TableTypeOK ==
  /\ table \in [n : Nat, query : Query, rows : [Sub -> ReviewState]] \union {None}
  /\ tableLoading \in BOOLEAN /\ tableSent \in Nat
  /\ tableCalls \subseteq [n : 1..tableSent, query : Query, answer : [Sub -> ReviewState] \union {None}]
  /\ OnTable => page.pagination \in 1..Pages

\* What is shown of the filter and the page is what the request sent last asks for.
TableFits ==
  /\ table # None => table.n <= tableSent
  /\ OnTable =>
       /\ \A c \in tableCalls : c.n = tableSent =>
            c.query = [task_id |-> page.task_id, pagination |-> page.pagination]
       /\ table # None /\ table.n = tableSent =>
            table.query = [task_id |-> page.task_id, pagination |-> page.pagination]

TableInv == TableTypeOK /\ TableFits

\* The last of the requests for the table is for q, which is what is shown from then on.
LEMMA ServiceFits ==
  ASSUME TableInv, NEW q \in Query, NEW r \in Query,
         SubmissionTableService(<<q>>) \/ SubmissionTableService(<<r, q>>),
         OnTable', page'.task_id = q.task_id, page'.pagination = q.pagination
  PROVE  TableInv'
<1> DEFINE call(i, x) == [n |-> tableSent + i, query |-> x, answer |-> None]
<1>0. tableSent \in Nat
  BY DEF TableInv, TableTypeOK
<1>1. PICK k \in {1, 2} :
        /\ tableSent' = tableSent + k
        /\ tableCalls' \subseteq tableCalls \union {call(1, r), call(k, q)}
        /\ k = 1 => tableCalls' \subseteq tableCalls \union {call(1, q)}
        /\ tableLoading' = TRUE /\ table' = table
  <2>1. CASE SubmissionTableService(<<q>>)
    <3>1. DOMAIN <<q>> = {1} /\ Len(<<q>>) = 1 /\ <<q>>[1] = q
      OBVIOUS
    <3>2. /\ tableCalls' = tableCalls \union {call(i, <<q>>[i]) : i \in DOMAIN <<q>>}
          /\ tableSent' = tableSent + Len(<<q>>) /\ tableLoading' = TRUE /\ table' = table
      BY <2>1 DEF SubmissionTableService
    <3>3. {call(i, <<q>>[i]) : i \in {1}} = {call(1, q)}
      BY <3>1
    <3> HIDE DEF call
    <3> QED
      BY <3>1, <3>2, <3>3
  <2>2. CASE SubmissionTableService(<<r, q>>)
    <3>1. DOMAIN <<r, q>> = {1, 2} /\ Len(<<r, q>>) = 2 /\ <<r, q>>[1] = r /\ <<r, q>>[2] = q
      OBVIOUS
    <3>2. /\ tableCalls' = tableCalls \union {call(i, <<r, q>>[i]) : i \in DOMAIN <<r, q>>}
          /\ tableSent' = tableSent + Len(<<r, q>>) /\ tableLoading' = TRUE /\ table' = table
      BY <2>2 DEF SubmissionTableService
    <3>3. {call(i, <<r, q>>[i]) : i \in {1, 2}} = {call(1, r), call(2, q)}
      BY <3>1
    <3> HIDE DEF call
    <3> QED
      BY <3>1, <3>2, <3>3
  <2> QED
    BY <2>1, <2>2
<1>2. \A i \in {1, 2}, x \in Query :
        call(i, x).n = tableSent + i /\ call(i, x).query = x /\ call(i, x).answer = None
  OBVIOUS
<1>3. tableSent' \in Nat /\ tableSent + 1 \in 1..tableSent' /\ tableSent + k \in 1..tableSent'
      /\ 1..tableSent \subseteq 1..tableSent'
  BY <1>0, <1>1
<1>4. call(1, r) \in [n : 1..tableSent', query : Query, answer : [Sub -> ReviewState] \union {None}]
  BY <1>3
<1>5. call(k, q) \in [n : 1..tableSent', query : Query, answer : [Sub -> ReviewState] \union {None}]
  BY <1>3
<1>6. call(1, q) \in [n : 1..tableSent', query : Query, answer : [Sub -> ReviewState] \union {None}]
  BY <1>3
<1> HIDE DEF call
<1>7. ASSUME NEW c \in tableCalls
      PROVE  c \in [n : 1..tableSent', query : Query, answer : [Sub -> ReviewState] \union {None}]
             /\ c.n # tableSent'
  <2>1. c \in [n : 1..tableSent, query : Query, answer : [Sub -> ReviewState] \union {None}]
    BY DEF TableInv, TableTypeOK
  <2>2. c.n \in 1..tableSent
    BY <2>1
  <2>3. c.n # tableSent'
    BY <1>0, <1>1, <2>2
  <2> QED
    BY <1>3, <2>1, <2>3
<1>8. TableTypeOK'
  <2>1. tableCalls' \subseteq [n : 1..tableSent', query : Query, answer : [Sub -> ReviewState] \union {None}]
    BY <1>1, <1>4, <1>5, <1>7
  <2>2. page'.pagination \in 1..Pages
    BY DEF Query
  <2> QED
    BY <1>1, <1>3, <2>1, <2>2 DEF TableInv, TableTypeOK
<1>9. q = [task_id |-> page'.task_id, pagination |-> page'.pagination]
  BY DEF Query
<1>10. \A c \in tableCalls' : c.n = tableSent' => c.query = q
  <2>1. CASE k = 1
    BY <1>1, <1>2, <1>7, <2>1
  <2>2. CASE k = 2
    <3>1. call(1, r).n # tableSent' /\ call(2, q).query = q
      BY <1>0, <1>1, <1>2, <2>2
    <3> QED
      BY <1>1, <1>7, <2>2, <3>1
  <2> QED
    BY <2>1, <2>2
<1>11. table' # None => table'.n <= tableSent' /\ table'.n # tableSent'
  <2> SUFFICES ASSUME table # None PROVE table.n <= tableSent' /\ table.n # tableSent'
    BY <1>1
  <2>1. table.n <= tableSent /\ table.n \in Nat
    BY DEF TableInv, TableFits, TableTypeOK
  <2> QED
    BY <1>0, <1>1, <2>1
<1>12. TableFits'
  BY <1>9, <1>10, <1>11 DEF TableFits
<1> QED
  BY <1>8, <1>12 DEF TableInv

\* Where a step of the project page leads.
LEMMA PageMoves ==
  ASSUME PageTypeOK, PageNext
  PROVE  \/ page' = page
         \/ page' = Project
         \/ ~OnTable /\ \E t \in Task \union {NoTask} : page' = Table(t)
<1>1. ASSUME NEW p, NEW cs, navigate(p, cs) PROVE page' = page \/ (page' = p /\ page.name # p.name)
  BY <1>1 DEF navigate
<1>2. \A t \in Task \union {NoTask} : Table(t).name = "table"
  BY DEF Table
<1>3. CASE visit(Project)
  BY <1>1, <1>3 DEF visit
<1>4. CASE visit(Table(NoTask))
  BY <1>1, <1>2, <1>4 DEF visit, OnTable
<1>5. ASSUME NEW c \in calls, event_answered(c)
      PROVE  \/ page' = page
             \/ page' = Project
             \/ ~OnTable /\ \E t \in Task \union {NoTask} : page' = Table(t)
  <2>1. c.task \in Task
    BY <1>5, CallFields DEF PageTypeOK, event_answered
  <2>2. page' = page \/ \E p \in {Table(c.task), Project} : page' = p /\ page.name # p.name
    BY <1>1, <1>5 DEF event_answered
  <2> QED
    BY <1>2, <2>1, <2>2 DEF OnTable
<1>6. ASSUME NEW e \in Event, handleOnClick(e) PROVE page' = page
  BY <1>6 DEF handleOnClick
<1>7. ASSUME NEW r \in Rights, change_rights(r) PROVE page' = page
  BY <1>7 DEF change_rights
<1>8. CASE (\E t \in Task : projectClickOnTaskArea(t)) \/ projectClickOnTaskFeature \/ close_popup
           \/ handleTaskMap \/ syncStatus \/ ten_days_pass
           \/ (\E t \in Task, e \in Event : other_event(t, e))
  BY <1>8 DEF projectClickOnTaskArea, projectClickOnTaskFeature, close_popup, handleTaskMap,
              syncStatus, ten_days_pass, other_event
<1>9. ASSUME NEW c \in calls, \/ add_new_task_event(c) \/ read(c) \/ lose(c)
                              \/ history_answered(c) \/ ProjectById(c) \/ SyncTaskState(c)
      PROVE  page' = page
  BY <1>9 DEF add_new_task_event, read, lose, history_answered, ProjectById, SyncTaskState, board_answered
<1> QED
  BY <1>3, <1>4, <1>5, <1>6, <1>7, <1>8, <1>9 DEF PageNext

\* The first page is one of the pages.
LEMMA FirstPage == 1 \in 1..Pages
BY SubmissionsAssumption

LEMMA TablePage ==
  ASSUME TableInv, PageTypeOK, page_step
  PROVE  TableInv'
<1>1. CASE OnTable' /\ ~OnTable
  <2>1. PICK t \in Task \union {NoTask} : page' = Table(t)
    <3>1. page' # page /\ page' # Project
      BY <1>1 DEF OnTable, Project
    <3> QED
      BY <3>1, PageMoves DEF page_step
  <2>2. page'.task_id = t /\ page'.pagination = 1
    BY <2>1 DEF Table
  <2>3. SubmissionTableService(<<[task_id |-> t, pagination |-> 1]>>)
    BY <1>1, <2>2 DEF page_step, OnTable
  <2> DEFINE q == [task_id |-> t, pagination |-> 1]
  <2>4. q \in Query /\ q.task_id = t /\ q.pagination = 1
    BY FirstPage DEF Query
  <2> HIDE DEF q
  <2> QED
    BY <1>1, <2>2, <2>3, <2>4, ServiceFits DEF q
<1>2. CASE ~(OnTable' /\ ~OnTable)
  <2>1. UNCHANGED tableVars /\ (OnTable' => page' = page)
    <3>1. UNCHANGED tableVars
      BY <1>2 DEF page_step, OnTable
    <3>2. OnTable' => page' = page
      BY <1>2, PageMoves DEF page_step, OnTable, Project
    <3> QED
      BY <3>1, <3>2
  <2> QED
    BY <2>1 DEF tableVars, TableInv, TableTypeOK, TableFits, OnTable
<1> QED
  BY <1>1, <1>2

LEMMA TableSteps ==
  ASSUME TableInv, PageTypeOK,
         \/ \E t \in Task \union {NoTask} : setFilter(t)
         \/ \E p \in 1..Pages : handleChangePage(p)
         \/ refreshTable
  PROVE  TableInv'
<1>0. OnTable => page.pagination \in 1..Pages /\ page.task_id \in Task \union {NoTask}
  BY DEF TableInv, TableTypeOK, PageTypeOK, Page, OnTable
<1>1. ASSUME NEW t \in Task \union {NoTask}, setFilter(t) PROVE TableInv'
  <2> DEFINE query(p) == [task_id |-> t, pagination |-> p]
  <2>1. OnTable /\ show(query(1))
    BY <1>1 DEF setFilter
  <2>2. page' = [name |-> "table", task_id |-> t, pagination |-> 1]
    BY <2>1 DEF show
  <2>3. SubmissionTableService(IF page.pagination = 1 THEN <<query(1)>>
                               ELSE <<query(page.pagination), query(1)>>)
    BY <1>1 DEF setFilter
  <2>4. query(1) \in Query /\ query(page.pagination) \in Query
    BY <1>0, <2>1, FirstPage DEF Query
  <2>5. OnTable' /\ page'.task_id = query(1).task_id /\ page'.pagination = query(1).pagination
    BY <2>2 DEF OnTable
  <2> HIDE DEF query
  <2> QED
    BY <2>3, <2>4, <2>5, ServiceFits
<1>2. ASSUME NEW p \in 1..Pages, handleChangePage(p) PROVE TableInv'
  <2> DEFINE q == [task_id |-> page.task_id, pagination |-> p]
  <2>1. OnTable /\ show(q) /\ SubmissionTableService(<<q>>)
    BY <1>2 DEF handleChangePage
  <2>2. page' = [name |-> "table", task_id |-> page.task_id, pagination |-> p]
    BY <2>1 DEF show
  <2>3. q \in Query /\ OnTable' /\ page'.task_id = q.task_id /\ page'.pagination = q.pagination
    BY <1>0, <2>1, <2>2 DEF Query, OnTable
  <2> HIDE DEF q
  <2> QED
    BY <2>1, <2>3, ServiceFits
<1>3. ASSUME refreshTable PROVE TableInv'
  <2> DEFINE q == [task_id |-> page.task_id, pagination |-> page.pagination]
  <2>1. OnTable /\ page' = page /\ SubmissionTableService(<<q>>)
    BY <1>3 DEF refreshTable, pageVars
  <2>2. q \in Query /\ OnTable' /\ page'.task_id = q.task_id /\ page'.pagination = q.pagination
    BY <1>0, <2>1 DEF Query, OnTable
  <2> HIDE DEF q
  <2> QED
    BY <2>1, <2>2, ServiceFits
<1> QED
  BY <1>1, <1>2, <1>3

LEMMA TableAnswers ==
  ASSUME TableInv, ReviewInv, NEW c \in tableCalls,
         submission_table(c) \/ SetSubmissionTable(c) \/ lose_table(c)
  PROVE  TableInv'
<1>0. /\ c \in [n : 1..tableSent, query : Query, answer : [Sub -> ReviewState] \union {None}]
      /\ tableSent \in Nat /\ c.n \in 1..tableSent
      /\ reviewState \in [Sub -> ReviewState]
  <2>1. c \in [n : 1..tableSent, query : Query, answer : [Sub -> ReviewState] \union {None}]
    BY DEF TableInv, TableTypeOK
  <2>2. tableSent \in Nat /\ reviewState \in [Sub -> ReviewState]
    BY DEF TableInv, TableTypeOK, ReviewInv, ReviewTypeOK
  <2> QED
    BY <2>1, <2>2
<1>1. page' = page /\ tableSent' = tableSent
  BY DEF submission_table, SetSubmissionTable, lose_table, other_step, pageVars
<1>2. CASE submission_table(c)
  <2> DEFINE a == [c EXCEPT !.answer = reviewState]
  <2>1. /\ a \in [n : 1..tableSent, query : Query, answer : [Sub -> ReviewState] \union {None}]
        /\ a.n = c.n /\ a.query = c.query
    BY <1>0
  <2>2. tableCalls' = (tableCalls \ {c}) \union {a} /\ UNCHANGED <<table, tableLoading>>
    BY <1>2 DEF submission_table
  <2> HIDE DEF a
  <2> QED
    BY <1>1, <2>1, <2>2 DEF TableInv, TableTypeOK, TableFits, OnTable
<1>3. CASE SetSubmissionTable(c)
  <2> DEFINE x == [n |-> c.n, query |-> c.query, rows |-> c.answer]
  <2>1. table' = x /\ tableCalls' = tableCalls \ {c} /\ tableLoading' = FALSE /\ c.answer # None
    BY <1>3 DEF SetSubmissionTable
  <2>2. c.n \in Nat /\ c.n <= tableSent
    BY <1>0
  <2>3. x \in [n : Nat, query : Query, rows : [Sub -> ReviewState]] /\ x.n = c.n /\ x.query = c.query
    BY <1>0, <2>1, <2>2
  <2> HIDE DEF x
  <2> QED
    BY <1>1, <2>1, <2>2, <2>3 DEF TableInv, TableTypeOK, TableFits, OnTable
<1>4. CASE lose_table(c)
  BY <1>1, <1>4 DEF lose_table, TableInv, TableTypeOK, TableFits, OnTable
<1> QED
  BY <1>2, <1>3, <1>4

LEMMA TableKept ==
  ASSUME TableInv, page' = page, UNCHANGED tableVars
  PROVE  TableInv'
BY DEF tableVars, TableInv, TableTypeOK, TableFits, OnTable

\* The row of the reviewed submission is changed in the table that is shown.
LEMMA TableRow ==
  ASSUME TableInv, page' = page, UNCHANGED <<tableLoading, tableCalls, tableSent>>, NEW s, NEW v \in Verdict,
         table' = (IF table # None THEN [table EXCEPT !.rows[s] = v] ELSE table) \/ table' = table
  PROVE  TableInv'
<1>1. CASE table' = table
  BY <1>1, TableKept DEF tableVars
<1>2. CASE table # None /\ table' = [table EXCEPT !.rows[s] = v]
  <2>1. table \in [n : Nat, query : Query, rows : [Sub -> ReviewState]]
    BY <1>2 DEF TableInv, TableTypeOK
  <2>2. v \in ReviewState
    BY DEF ReviewState
  <2>3. /\ table' \in [n : Nat, query : Query, rows : [Sub -> ReviewState]]
        /\ table'.n = table.n /\ table'.query = table.query
    BY <1>2, <2>1, <2>2
  <2> QED
    BY <1>2, <2>3 DEF TableInv, TableTypeOK, TableFits, OnTable
<1> QED
  BY <1>1, <1>2

LEMMA TableFitsShown == TableInv => TableShowsFilter
BY DEF TableInv, TableFits, TableShowsFilter

LEMMA WriteFields ==
  ASSUME NEW w \in Write
  PROVE  /\ w.n \in Nat /\ w.kind \in {"post", "status", "delete"} /\ w.sub \in Sub /\ w.verdict \in Verdict
         /\ w.kind = "delete" => w.row \in GeomRow
         /\ EntityOf[w.sub] \in Entity
BY SubmissionsAssumption DEF Write

LEMMA UpdateFields ==
  ASSUME NEW u \in Update
  PROVE  /\ u.sub \in Sub /\ u.verdict \in Verdict /\ u.list \subseteq GeomRow
         /\ u.answer \in {None, "done", "failed"} /\ u # None
         /\ EntityOf[u.sub] \in Entity
BY SubmissionsAssumption, UpdateAssumption DEF Update

LEMMA Verdicts ==
  ASSUME ReviewTypeOK, NEW e \in Entity, verdict[e] # None
  PROVE  verdict[e].sub \in Sub /\ verdict[e].verdict \in Verdict
BY DEF ReviewTypeOK

\* A step that does not concern an entity, its submissions, its rows or the writes for it.
LEMMA OtherEntity ==
  ASSUME ReviewInv, NEW e \in Entity, verdict'[e] = verdict[e], WritesOf(e)' = WritesOf(e),
         verdict[e] # None => reviewState'[verdict[e].sub] = reviewState[verdict[e].sub],
         status'[e] = status[e], RowsOf(geometrylog', e) = RowsOf(geometrylog, e),
         \/ updating' = updating
         \/ ~(updating # None /\ EntityOf[updating.sub] = e) /\ ~(updating' # None /\ EntityOf[updating'.sub] = e)
  PROVE  ReviewOf(e)'
<1>1. SUFFICES ASSUME verdict[e] # None
               PROVE  /\ EntityOf[verdict[e].sub] = e
                      /\ IF updating' # None /\ EntityOf[updating'.sub] = e
                         THEN Awaited(e, verdict[e])' ELSE Written(e, verdict[e])'
  BY DEF ReviewOf
<1>2. ReviewOf(e)
  BY DEF ReviewInv
<1>3. CASE updating # None /\ EntityOf[updating.sub] = e
  <2>1. updating' = updating /\ Awaited(e, verdict[e]) /\ EntityOf[verdict[e].sub] = e
    BY <1>1, <1>2, <1>3 DEF ReviewOf
  <2>2. Awaited(e, verdict[e])'
    BY <1>1, <2>1 DEF Awaited
  <2> QED
    BY <1>3, <2>1, <2>2
<1>4. CASE ~(updating # None /\ EntityOf[updating.sub] = e)
  <2>1. ~(updating' # None /\ EntityOf[updating'.sub] = e)
    BY <1>4
  <2>2. Written(e, verdict[e]) /\ EntityOf[verdict[e].sub] = e
    BY <1>1, <1>2, <1>4 DEF ReviewOf
  <2>3. Written(e, verdict[e])'
    BY <1>1, <2>2 DEF Written
  <2> QED
    BY <2>1, <2>2, <2>3
<1> QED
  BY <1>3, <1>4

LEMMA ReviewKept ==
  ASSUME ReviewInv, UNCHANGED reviewVars
  PROVE  ReviewInv'
<1>1. UNCHANGED <<updating, writes, reviews, reviewState, status, geometrylog, verdict>>
  BY DEF reviewVars
<1>2. ReviewTypeOK'
  BY <1>1 DEF ReviewInv, ReviewTypeOK
<1>3. ASSUME NEW e \in Entity PROVE ReviewOf(e)'
  <2>1. WritesOf(e)' = WritesOf(e)
    BY <1>1 DEF WritesOf
  <2> QED
    BY <1>1, <2>1, OtherEntity
<1> QED
  BY <1>1, <1>2, <1>3 DEF ReviewInv

\* The review of an entity becomes doubtful.
LEMMA Doubted ==
  ASSUME ReviewInv, NEW s \in Sub, doubt(s)
  PROVE  /\ verdict' \in [Entity -> [sub : Sub, verdict : Verdict] \union {None}]
         /\ verdict'[EntityOf[s]] = None
         /\ \A e \in Entity : e # EntityOf[s] => verdict'[e] = verdict[e]
<1>1. EntityOf[s] \in Entity
  BY SubmissionsAssumption
<1> QED
  BY <1>1 DEF doubt, ReviewInv, ReviewTypeOK

LEMMA ReviewSent ==
  ASSUME ReviewInv, ModalTypeOK, handleStatusUpdate
  PROVE  ReviewInv'
<1>1. CASE modal.state = reviewStatus
  BY <1>1, ReviewKept DEF handleStatusUpdate, reviewVars
<1>2. CASE modal.state # reviewStatus
  <2>0. PICK e : e = EntityOf[modal.sub]
    OBVIOUS
  <2> DEFINE u == [sub |-> modal.sub, verdict |-> reviewStatus, list |-> badGeomLogList, answer |-> None]
             v == [sub |-> modal.sub, verdict |-> reviewStatus]
  <2>1. /\ modal.sub \in Sub /\ reviewStatus \in Verdict /\ badGeomLogList \subseteq GeomRow /\ updating = None
    BY DEF ModalTypeOK, handleStatusUpdate, ReviewState
  <2>2. e \in Entity
    BY <2>0, <2>1, SubmissionsAssumption
  <2>3. /\ reviews < MaxReviews /\ reviews' = reviews + 1 /\ updating' = u
        /\ verdict' = [verdict EXCEPT ![e] = IF certain(e, reviewStatus) THEN v ELSE None]
        /\ UNCHANGED <<writes, reviewState, status, geometrylog>>
    BY <1>2, <2>0 DEF handleStatusUpdate
  <2>4. u \in Update /\ v \in [sub : Sub, verdict : Verdict]
    BY <2>1 DEF Update
  <2>5. u.sub = modal.sub /\ u.verdict = reviewStatus /\ u.list = badGeomLogList /\ u.answer = None
        /\ v.sub = modal.sub /\ v.verdict = reviewStatus
    OBVIOUS
  <2> HIDE DEF u, v
  <2>6. reviews' \in 0..MaxReviews
    <3>1. reviews \in 0..MaxReviews /\ MaxReviews \in Nat
      BY SubmissionsAssumption DEF ReviewInv, ReviewTypeOK
    <3> QED
      BY <2>3, <3>1
  <2>7. ReviewTypeOK'
    BY <2>2, <2>3, <2>4, <2>6 DEF ReviewInv, ReviewTypeOK
  <2>8. None \notin {"done", "failed"} /\ u # None
    BY <2>4, UpdateAssumption
  <2>9. ASSUME NEW d \in Entity, d # e PROVE ReviewOf(d)'
    <3>1. verdict'[d] = verdict[d]
      BY <2>2, <2>3, <2>9 DEF ReviewInv, ReviewTypeOK
    <3>2. WritesOf(d)' = WritesOf(d)
      BY <2>3 DEF WritesOf
    <3> QED
      BY <2>0, <2>1, <2>3, <2>5, <2>9, <3>1, <3>2, OtherEntity
  <2>10. ReviewOf(e)'
    <3>1. SUFFICES ASSUME verdict'[e] # None PROVE EntityOf[verdict'[e].sub] = e /\ Awaited(e, verdict[e])'
      BY <2>0, <2>3, <2>5, <2>8 DEF ReviewOf
    <3>2. certain(e, reviewStatus) /\ verdict'[e] = v
      BY <2>2, <2>3, <3>1 DEF ReviewInv, ReviewTypeOK
    <3>3. WritesOf(e)' = {}
      BY <2>3, <3>2 DEF certain, WritesOf
    <3>4. ASSUME reviewStatus = "approved"
          PROVE  /\ RowsOf(badGeomLogList, e) = RowsOf(geometrylog, e)
                 /\ \A g, h \in RowsOf(geometrylog, e) : g = h
      <4>1. RowsOf(badGeomLogList, e) = RowsOf(geometrylog, e) /\ Cardinality(RowsOf(geometrylog, e)) <= 1
        BY <3>2, <3>4 DEF certain
      <4>2. IsFiniteSet(RowsOf(geometrylog, e))
        <5>1. RowsOf(geometrylog, e) \subseteq geometrylog
          BY DEF RowsOf
        <5> QED
          BY <5>1, FS_Subset DEF ReviewInv
      <4>3. ASSUME NEW g \in RowsOf(geometrylog, e), NEW h \in RowsOf(geometrylog, e), g # h PROVE FALSE
        <5>1. IsFiniteSet({g, h}) /\ Cardinality({g, h}) = 2
          <6>1. IsFiniteSet({g}) /\ Cardinality({g}) = 1
            BY FS_Singleton
          <6>2. {g, h} = {g} \union {h} /\ h \notin {g}
            BY <4>3
          <6> QED
            BY <6>1, <6>2, FS_AddElement
        <5>2. {g, h} \subseteq RowsOf(geometrylog, e)
          OBVIOUS
        <5>3. Cardinality({g, h}) <= Cardinality(RowsOf(geometrylog, e))
          BY <4>2, <5>2, FS_Subset
        <5>4. Cardinality(RowsOf(geometrylog, e)) \in Nat
          BY <4>2, FS_CardinalityType
        <5> QED
          BY <4>1, <5>1, <5>3, <5>4
      <4> QED
        BY <4>1, <4>3
    <3>5. Awaited(e, verdict[e])'
      BY <2>3, <2>5, <2>8, <3>2, <3>3, <3>4 DEF Awaited
    <3> QED
      BY <2>0, <2>5, <3>2, <3>5
  <2> QED
    BY <2>3, <2>7, <2>9, <2>10 DEF ReviewInv
<1> QED
  BY <1>1, <1>2

\* The first request is handled, or lost.
LEMMA ReviewHandled ==
  ASSUME ReviewInv, update_review_state \/ lose_review
  PROVE  ReviewInv'
<1>e. PICK e : e = EntityOf[updating.sub]
  OBVIOUS
<1>0. updating \in Update /\ updating # None
  BY DEF update_review_state, lose_review, ReviewInv, ReviewTypeOK
<1>1. updating.sub \in Sub /\ updating.verdict \in Verdict /\ e \in Entity
  BY <1>0, <1>e, UpdateFields
<1>2. UNCHANGED <<writes, reviews, status, geometrylog>>
  BY DEF update_review_state, lose_review
<1>3. ASSUME NEW x \in {"done", "failed"}, updating' = [updating EXCEPT !.answer = x]
      PROVE  /\ updating' \in Update /\ updating' # None /\ updating'.answer = x /\ updating'.sub = updating.sub
             /\ updating'.verdict = updating.verdict /\ updating'.list = updating.list
  <2>1. /\ updating' \in Update /\ updating'.answer = x /\ updating'.sub = updating.sub
        /\ updating'.verdict = updating.verdict /\ updating'.list = updating.list
    BY <1>0, <1>3 DEF Update
  <2> QED
    BY <2>1, UpdateFields
<1>4. ASSUME NEW d \in Entity, d # e, verdict'[d] = verdict[d],
             verdict[d] # None => reviewState'[verdict[d].sub] = reviewState[verdict[d].sub],
             updating'.sub = updating.sub
      PROVE  ReviewOf(d)'
  <2>1. WritesOf(d)' = WritesOf(d)
    BY <1>2 DEF WritesOf
  <2> QED
    BY <1>2, <1>e, <1>4, <2>1, OtherEntity
<1>5. CASE update_review_state /\ project_manager(rights)
  <2>1. /\ updating' = [updating EXCEPT !.answer = "done"] /\ verdict' = verdict
        /\ reviewState' = [reviewState EXCEPT ![updating.sub] = updating.verdict]
    BY <1>5 DEF update_review_state
  <2>2. /\ updating' \in Update /\ updating' # None /\ updating'.answer = "done" /\ updating'.sub = updating.sub
        /\ updating'.verdict = updating.verdict /\ updating'.list = updating.list
    BY <1>3, <2>1
  <2>3. reviewState' \in [Sub -> ReviewState] /\ reviewState'[updating.sub] = updating.verdict
        /\ \A s \in Sub \ {updating.sub} : reviewState'[s] = reviewState[s]
    BY <1>1, <2>1 DEF ReviewInv, ReviewTypeOK, ReviewState
  <2>4. ReviewTypeOK'
    BY <1>2, <2>1, <2>2, <2>3 DEF ReviewInv, ReviewTypeOK
  <2>5. ASSUME NEW d \in Entity, d # e PROVE ReviewOf(d)'
    <3>1. verdict[d] # None => verdict[d].sub \in Sub /\ EntityOf[verdict[d].sub] = d
      BY Verdicts DEF ReviewInv, ReviewOf
    <3>2. verdict[d] # None => reviewState'[verdict[d].sub] = reviewState[verdict[d].sub]
      BY <1>e, <2>3, <2>5, <3>1
    <3> QED
      BY <1>4, <2>1, <2>2, <2>5, <3>2
  <2>6. ReviewOf(e)'
    <3>1. SUFFICES ASSUME verdict[e] # None PROVE EntityOf[verdict[e].sub] = e /\ Awaited(e, verdict[e])'
      BY <1>e, <2>1, <2>2 DEF ReviewOf
    <3>2. EntityOf[verdict[e].sub] = e /\ Awaited(e, verdict[e])
      BY <1>0, <1>1, <1>e, <3>1 DEF ReviewInv, ReviewOf
    <3>3. WritesOf(e)' = WritesOf(e)
      BY <1>2 DEF WritesOf
    <3>4. Awaited(e, verdict[e])'
      BY <1>2, <2>1, <2>2, <2>3, <3>2, <3>3 DEF Awaited
    <3> QED
      BY <3>2, <3>4
  <2> QED
    BY <1>2, <2>4, <2>5, <2>6 DEF ReviewInv
<1>6. CASE lose_review \/ ~project_manager(rights)
  <2>1. updating' = [updating EXCEPT !.answer = "failed"] /\ doubt(updating.sub) /\ reviewState' = reviewState
    BY <1>6 DEF update_review_state, lose_review
  <2>2. updating' \in Update /\ updating'.sub = updating.sub
    BY <1>3, <2>1
  <2>3. /\ verdict' \in [Entity -> [sub : Sub, verdict : Verdict] \union {None}]
        /\ verdict'[e] = None /\ \A d \in Entity : d # e => verdict'[d] = verdict[d]
    BY <1>1, <1>e, <2>1, Doubted
  <2>4. ReviewTypeOK'
    BY <1>2, <2>1, <2>2, <2>3 DEF ReviewInv, ReviewTypeOK
  <2>5. ASSUME NEW d \in Entity, d # e PROVE ReviewOf(d)'
    BY <1>4, <2>1, <2>2, <2>3, <2>5
  <2>6. ReviewOf(e)'
    BY <2>3 DEF ReviewOf
  <2> QED
    BY <1>2, <2>4, <2>5, <2>6 DEF ReviewInv
<1> QED
  BY <1>5, <1>6

\* The rest of the review is sent.
LEMMA ReviewFollowed ==
  ASSUME ReviewInv, review_answered
  PROVE  ReviewInv'
<1>e. PICK e : e = EntityOf[updating.sub]
  OBVIOUS
<1> DEFINE fu(kind) == follow_up(kind)
           del(g) == [n |-> reviews, kind |-> "delete", sub |-> updating.sub, verdict |-> "approved", row |-> g]
<1>0. updating \in Update /\ updating # None
  BY DEF review_answered, ReviewInv, ReviewTypeOK
<1>1. updating.sub \in Sub /\ updating.verdict \in Verdict /\ e \in Entity /\ updating.list \subseteq GeomRow
      /\ updating.answer \in {None, "done", "failed"} /\ reviews \in Nat
  BY <1>0, <1>e, UpdateFields, SubmissionsAssumption DEF ReviewInv, ReviewTypeOK
<1>2. ASSUME NEW kind \in {"post", "status"}
      PROVE  /\ fu(kind) \in Write /\ fu(kind).sub = updating.sub /\ fu(kind).verdict = updating.verdict
             /\ fu(kind).kind = kind
  BY <1>1 DEF follow_up, Write
<1>3. ASSUME NEW g \in GeomRow
      PROVE  /\ del(g) \in Write /\ del(g).sub = updating.sub /\ del(g).verdict = "approved"
             /\ del(g).kind = "delete" /\ del(g).row = g
  BY <1>1 DEF Write, Verdict
<1> HIDE DEF fu, del
\* The three cases of what is sent.
<1>4. PICK ws :
        /\ after_review(ws)
        /\ \/ updating.verdict = "hasIssues" /\ ws = {fu("status"), fu("post")}
           \/ /\ updating.verdict = "approved" /\ RowsOf(updating.list, e) = {} /\ ws = {fu("status")}
           \/ /\ updating.verdict = "approved"
              /\ \E g \in RowsOf(updating.list, e) : ws = {fu("status"), del(g)}
  BY <1>e, Zenon DEF review_answered, fu, del
<1>5. /\ updating.answer # None /\ updating' = None /\ writes' = writes \union ws
      /\ UNCHANGED <<reviews, reviewState, status, geometrylog, verdict>>
  BY <1>4 DEF after_review
<1>6. \A g \in RowsOf(updating.list, e) : g \in GeomRow /\ g.entity = e
  BY <1>1 DEF RowsOf
<1>7. ASSUME NEW w \in ws
      PROVE  /\ w \in Write /\ w.sub = updating.sub /\ w.verdict = updating.verdict
             /\ w.kind = "delete" => w.row.entity = e
  BY <1>2, <1>3, <1>4, <1>6
<1>8. ReviewTypeOK'
  BY <1>5, <1>7 DEF ReviewInv, ReviewTypeOK
<1>9. ASSUME NEW d \in Entity, d # e PROVE ReviewOf(d)'
  <2>1. WritesOf(d)' = WritesOf(d)
    BY <1>e, <1>5, <1>7, <1>9 DEF WritesOf
  <2> QED
    BY <1>e, <1>5, <1>9, <2>1, OtherEntity
<1>10. ReviewOf(e)'
  <2>1. SUFFICES ASSUME verdict[e] # None PROVE EntityOf[verdict[e].sub] = e /\ Written(e, verdict[e])'
    BY <1>5 DEF ReviewOf
  <2>2. EntityOf[verdict[e].sub] = e /\ Awaited(e, verdict[e])
    BY <1>0, <1>1, <1>e, <2>1 DEF ReviewInv, ReviewOf
  <2>3. WritesOf(e)' = ws
    BY <1>e, <1>5, <1>7, <2>2 DEF WritesOf, Awaited
  <2>4. reviewState[verdict[e].sub] = verdict[e].verdict
        /\ updating.sub = verdict[e].sub /\ updating.verdict = verdict[e].verdict
    BY <1>1, <1>5, <2>2 DEF Awaited
  <2>5. fu("status") \in ws /\ fu("status").kind = "status"
    BY <1>2, <1>4
  <2>6. CASE updating.verdict = "hasIssues"
    <3>1. /\ fu("post") \in ws /\ fu("post").kind = "post"
          /\ \A w \in ws : w.kind # "delete"
      BY <1>2, <1>4, <2>6
    <3> QED
      BY <1>5, <1>7, <2>2, <2>3, <2>4, <2>5, <2>6, <3>1 DEF Written
  <2>7. CASE updating.verdict = "approved"
    <3>1. \A w \in ws : w.kind # "post"
      BY <1>2, <1>3, <1>4, <1>6, <2>7
    <3>2. \A g \in RowsOf(geometrylog, e) : \E w \in ws : w.kind = "delete" /\ w.row = g
      <4>1. RowsOf(updating.list, e) = RowsOf(geometrylog, e) /\ \A g, h \in RowsOf(geometrylog, e) : g = h
        BY <2>2, <2>4, <2>7 DEF Awaited
      <4> QED
        BY <1>3, <1>4, <1>6, <2>7, <4>1
    <3> QED
      BY <1>5, <1>7, <2>2, <2>3, <2>4, <2>5, <2>7, <3>1, <3>2 DEF Written
  <2> QED
    BY <1>1, <2>6, <2>7 DEF Verdict
<1>11. \A w \in writes' : w.kind = "delete" => w.row.entity = EntityOf[w.sub]
  BY <1>e, <1>5, <1>7 DEF ReviewInv
<1> QED
  BY <1>5, <1>8, <1>9, <1>10, <1>11 DEF ReviewInv

\* One of the later requests has been handled or lost: all that its review needs of it is that
\* it was done, or the review is doubtful.
LEMMA WriteEnds ==
  ASSUME ReviewInv, NEW w \in writes, NEW e \in Entity, e = EntityOf[w.sub],
         writes' = writes \ {w}, UNCHANGED <<updating, reviews, reviewState>>,
         ReviewTypeOK', IsFiniteSet(geometrylog'),
         \A d \in Entity : d # e => /\ verdict'[d] = verdict[d] /\ status'[d] = status[d]
                                    /\ RowsOf(geometrylog', d) = RowsOf(geometrylog, d),
         \/ verdict'[e] = None
         \/ verdict'[e] = verdict[e] /\ (Written(e, verdict[e]) => Written(e, verdict[e])')
  PROVE  ReviewInv'
<1>1. ASSUME NEW d \in Entity, d # e PROVE ReviewOf(d)'
  <2>1. WritesOf(d)' = WritesOf(d)
    BY <1>1 DEF WritesOf
  <2> QED
    BY <1>1, <2>1, OtherEntity
<1>2. ReviewOf(e)'
  <2>1. CASE verdict'[e] = None
    BY <2>1 DEF ReviewOf
  <2>2. CASE verdict'[e] = verdict[e] /\ (Written(e, verdict[e]) => Written(e, verdict[e])')
    <3>1. SUFFICES ASSUME verdict[e] # None
                   PROVE  /\ EntityOf[verdict[e].sub] = e
                          /\ ~(updating # None /\ EntityOf[updating.sub] = e)
                          /\ Written(e, verdict[e])'
      BY <2>2 DEF ReviewOf
    <3>2. EntityOf[verdict[e].sub] = e /\ w \in WritesOf(e)
      BY <3>1 DEF ReviewInv, ReviewOf, WritesOf
    <3>3. ~(updating # None /\ EntityOf[updating.sub] = e)
      BY <3>1, <3>2 DEF ReviewInv, ReviewOf, Awaited
    <3>4. Written(e, verdict[e])
      BY <3>1, <3>3 DEF ReviewInv, ReviewOf
    <3> QED
      BY <2>2, <3>2, <3>3, <3>4
  <2> QED
    BY <2>1, <2>2
<1> QED
  BY <1>1, <1>2 DEF ReviewInv

LEMMA GeometryWritten ==
  ASSUME ReviewInv, NEW w \in writes, geometry_written(w)
  PROVE  ReviewInv'
<1>0. w \in Write /\ w.kind \in {"post", "delete"}
  BY DEF ReviewInv, ReviewTypeOK, geometry_written
<1>e. PICK e \in Entity : e = EntityOf[w.sub]
  BY <1>0, WriteFields
<1>1. w.n \in Nat /\ w.sub \in Sub /\ w.verdict \in Verdict /\ (w.kind = "delete" => w.row \in GeomRow /\ w.row.entity = e)
  BY <1>0, <1>e, WriteFields DEF ReviewInv
<1>2. writes' = writes \ {w} /\ UNCHANGED <<updating, reviews, reviewState, status>>
  BY DEF geometry_written
<1>3. /\ geometrylog \subseteq GeomRow /\ IsFiniteSet(geometrylog)
  BY DEF ReviewInv, ReviewTypeOK
<1>4. CASE ~project_manager(rights)
  <2>1. doubt(w.sub) /\ geometrylog' = geometrylog
    BY <1>4 DEF geometry_written
  <2>2. /\ verdict' \in [Entity -> [sub : Sub, verdict : Verdict] \union {None}]
        /\ verdict'[e] = None /\ \A d \in Entity : d # e => verdict'[d] = verdict[d]
    BY <1>1, <1>e, <2>1, Doubted
  <2>3. ReviewTypeOK'
    BY <1>2, <2>1, <2>2 DEF ReviewInv, ReviewTypeOK
  <2> QED
    BY <1>2, <1>3, <1>e, <2>1, <2>2, <2>3, WriteEnds
<1>5. CASE project_manager(rights) /\ w.kind = "post"
  <2> DEFINE row == [entity |-> EntityOf[w.sub], who |-> "me", n |-> w.n]
  <2>1. geometrylog' = geometrylog \union {row} /\ verdict' = verdict
    BY <1>5 DEF geometry_written
  <2>2. row \in GeomRow /\ row.entity = e
    BY <1>1, <1>e DEF GeomRow
  <2> HIDE DEF row
  <2>3. ReviewTypeOK' /\ IsFiniteSet(geometrylog')
    BY <1>2, <1>3, <2>1, <2>2, FS_AddElement DEF ReviewInv, ReviewTypeOK
  <2>4. \A d \in Entity : d # e => RowsOf(geometrylog', d) = RowsOf(geometrylog, d)
    BY <2>1, <2>2 DEF RowsOf
  <2>5. ASSUME Written(e, verdict[e]) PROVE Written(e, verdict[e])'
    <3>1. w \in WritesOf(e) /\ WritesOf(e)' = WritesOf(e) \ {w}
      BY <1>2, <1>e DEF WritesOf
    <3>2. verdict[e].verdict # "approved"
      BY <1>5, <2>5, <3>1 DEF Written
    <3>3. RowsOf(geometrylog', e) # {}
      BY <2>1, <2>2 DEF RowsOf
    <3>4. (\E x \in WritesOf(e) : x.kind = "status") => \E x \in WritesOf(e)' : x.kind = "status"
      BY <1>5, <3>1
    <3> QED
      BY <1>2, <2>1, <2>5, <3>1, <3>2, <3>3, <3>4 DEF Written
  <2> QED
    BY <1>2, <1>e, <2>1, <2>3, <2>4, <2>5, WriteEnds
<1>6. CASE project_manager(rights) /\ w.kind = "delete"
  <2>1. geometrylog' = geometrylog \ {w.row} /\ verdict' = verdict
    BY <1>6 DEF geometry_written
  <2>2. w.row.entity = e
    BY <1>1, <1>6
  <2>3. ReviewTypeOK' /\ IsFiniteSet(geometrylog')
    <3>1. geometrylog' \subseteq geometrylog
      BY <2>1
    <3> QED
      BY <1>2, <1>3, <2>1, <3>1, FS_Subset DEF ReviewInv, ReviewTypeOK
  <2>4. \A d \in Entity : d # e => RowsOf(geometrylog', d) = RowsOf(geometrylog, d)
    BY <2>1, <2>2 DEF RowsOf
  <2>5. ASSUME Written(e, verdict[e]) PROVE Written(e, verdict[e])'
    <3>1. w \in WritesOf(e) /\ WritesOf(e)' = WritesOf(e) \ {w}
      BY <1>2, <1>e DEF WritesOf
    <3>2. verdict[e].verdict # "hasIssues"
      BY <1>6, <2>5, <3>1 DEF Written
    <3>3. (\E x \in WritesOf(e) : x.kind = "status") => \E x \in WritesOf(e)' : x.kind = "status"
      BY <1>6, <3>1
    <3>4. ASSUME verdict[e].verdict = "approved", NEW g \in RowsOf(geometrylog', e)
          PROVE  \E x \in WritesOf(e)' : x.kind = "delete" /\ x.row = g
      <4>1. g \in RowsOf(geometrylog, e) /\ g # w.row
        BY <2>1 DEF RowsOf
      <4> QED
        BY <2>5, <3>1, <3>4, <4>1 DEF Written
    <3>5. verdict[e].verdict = "approved" => \A x \in WritesOf(e)' : x.kind # "post"
      BY <2>5, <3>1 DEF Written
    <3>6. /\ reviewState[verdict[e].sub] = verdict[e].verdict
          /\ \A x \in WritesOf(e)' : x.sub = verdict[e].sub /\ x.verdict = verdict[e].verdict
          /\ \/ \E x \in WritesOf(e)' : x.kind = "status"
             \/ status[e] = IF verdict[e].verdict = "approved" THEN "VALIDATED" ELSE "MARKED_BAD"
      BY <2>5, <3>1, <3>3 DEF Written
    <3> QED
      BY <1>2, <2>1, <3>2, <3>4, <3>5, <3>6 DEF Written
  <2> QED
    BY <1>2, <1>e, <2>1, <2>3, <2>4, <2>5, WriteEnds
<1> QED
  BY <1>0, <1>4, <1>5, <1>6

LEMMA StatusWritten ==
  ASSUME ReviewInv, NEW w \in writes, set_odk_entities_mapping_status(w)
  PROVE  ReviewInv'
<1>0. w \in Write /\ w.kind = "status"
  BY DEF ReviewInv, ReviewTypeOK, set_odk_entities_mapping_status
<1>e. PICK e \in Entity : e = EntityOf[w.sub]
  BY <1>0, WriteFields
<1>1. w.sub \in Sub /\ w.verdict \in Verdict
  BY <1>0, WriteFields
<1>2. writes' = writes \ {w} /\ UNCHANGED <<updating, reviews, reviewState, geometrylog>>
  BY DEF set_odk_entities_mapping_status
<1>3. IsFiniteSet(geometrylog')
  BY <1>2 DEF ReviewInv
<1>4. CASE ~mapper(rights)
  <2>1. doubt(w.sub) /\ status' = status
    BY <1>4 DEF set_odk_entities_mapping_status
  <2>2. /\ verdict' \in [Entity -> [sub : Sub, verdict : Verdict] \union {None}]
        /\ verdict'[e] = None /\ \A d \in Entity : d # e => verdict'[d] = verdict[d]
    BY <1>1, <1>e, <2>1, Doubted
  <2>3. ReviewTypeOK'
    BY <1>2, <2>1, <2>2 DEF ReviewInv, ReviewTypeOK
  <2> QED
    BY <1>2, <1>3, <1>e, <2>1, <2>2, <2>3, WriteEnds
<1>5. CASE mapper(rights)
  <2>1. /\ status' = [status EXCEPT ![e] = IF w.verdict = "approved" THEN "VALIDATED" ELSE "MARKED_BAD"]
        /\ verdict' = verdict
    BY <1>5, <1>e DEF set_odk_entities_mapping_status
  <2>2. ReviewTypeOK'
    BY <1>2, <2>1 DEF ReviewInv, ReviewTypeOK
  <2>3. /\ status'[e] = IF w.verdict = "approved" THEN "VALIDATED" ELSE "MARKED_BAD"
        /\ \A d \in Entity : d # e => status'[d] = status[d]
    BY <2>1 DEF ReviewInv, ReviewTypeOK
  <2>4. ASSUME Written(e, verdict[e]) PROVE Written(e, verdict[e])'
    <3>1. w \in WritesOf(e) /\ WritesOf(e)' = WritesOf(e) \ {w}
      BY <1>2, <1>e DEF WritesOf
    <3>2. w.verdict = verdict[e].verdict
      BY <2>4, <3>1 DEF Written
    <3>3. /\ verdict[e].verdict = "hasIssues" =>
               /\ \A x \in WritesOf(e)' : x.kind # "delete"
               /\ (\E x \in WritesOf(e)' : x.kind = "post") \/ RowsOf(geometrylog, e) # {}
          /\ verdict[e].verdict = "approved" =>
               /\ \A x \in WritesOf(e)' : x.kind # "post"
               /\ \A g \in RowsOf(geometrylog, e) : \E x \in WritesOf(e)' : x.kind = "delete" /\ x.row = g
      BY <1>0, <2>4, <3>1 DEF Written
    <3>4. /\ reviewState[verdict[e].sub] = verdict[e].verdict
          /\ \A x \in WritesOf(e)' : x.sub = verdict[e].sub /\ x.verdict = verdict[e].verdict
      BY <2>4, <3>1 DEF Written
    <3> QED
      BY <1>2, <2>1, <2>3, <3>2, <3>3, <3>4 DEF Written
  <2> QED
    BY <1>2, <1>3, <1>e, <2>1, <2>2, <2>3, <2>4, WriteEnds
<1> QED
  BY <1>4, <1>5

LEMMA WriteLost ==
  ASSUME ReviewInv, NEW w \in writes, lose_write(w)
  PROVE  ReviewInv'
<1>0. w \in Write
  BY DEF ReviewInv, ReviewTypeOK
<1>e. PICK e \in Entity : e = EntityOf[w.sub]
  BY <1>0, WriteFields
<1>1. w.sub \in Sub
  BY <1>0, WriteFields
<1>2. writes' = writes \ {w} /\ UNCHANGED <<updating, reviews, reviewState, status, geometrylog>> /\ doubt(w.sub)
  BY DEF lose_write
<1>3. IsFiniteSet(geometrylog')
  BY <1>2 DEF ReviewInv
<1>4. /\ verdict' \in [Entity -> [sub : Sub, verdict : Verdict] \union {None}]
      /\ verdict'[e] = None /\ \A d \in Entity : d # e => verdict'[d] = verdict[d]
  BY <1>1, <1>2, <1>e, Doubted
<1>5. ReviewTypeOK'
  BY <1>2, <1>4 DEF ReviewInv, ReviewTypeOK
<1> QED
  BY <1>2, <1>3, <1>4, <1>5, <1>e, WriteEnds

\* Another reviewer.
LEMMA ReviewedByOther ==
  ASSUME ReviewInv, PageTypeOK, NEW s \in Sub, NEW v \in Verdict, other_review(s, v)
  PROVE  ReviewInv'
<1>e. PICK e \in Entity : e = EntityOf[s]
  BY SubmissionsAssumption
<1>1. /\ reviewState' = [reviewState EXCEPT ![s] = v]
      /\ status' = [status EXCEPT ![e] = IF v = "approved" THEN "VALIDATED" ELSE "MARKED_BAD"]
      /\ UNCHANGED <<updating, writes, reviews>> /\ doubt(s)
  BY <1>e DEF other_review
<1>2. /\ verdict' \in [Entity -> [sub : Sub, verdict : Verdict] \union {None}]
      /\ verdict'[e] = None /\ \A d \in Entity : d # e => verdict'[d] = verdict[d]
  BY <1>1, <1>e, Doubted
<1>3. others \in Nat
  <2>1. others \in 0..MaxOthers
    BY DEF PageTypeOK
  <2> QED
    BY <2>1, PageAssumption
<1> DEFINE row == [entity |-> e, who |-> "other", n |-> others]
<1>4. row \in GeomRow /\ row.entity = e
  BY <1>3 DEF GeomRow
<1> HIDE DEF row
<1>5. \/ geometrylog' = geometrylog \union {row}
      \/ geometrylog' = geometrylog
      \/ \E g \in RowsOf(geometrylog, e) : geometrylog' = geometrylog \ {g}
  BY <1>e DEF other_review, row
<1>6. /\ geometrylog' \subseteq GeomRow /\ IsFiniteSet(geometrylog')
      /\ \A d \in Entity : d # e => RowsOf(geometrylog', d) = RowsOf(geometrylog, d)
  <2>0. geometrylog \subseteq GeomRow /\ IsFiniteSet(geometrylog)
    BY DEF ReviewInv, ReviewTypeOK
  <2>1. CASE geometrylog' = geometrylog \union {row}
    BY <1>4, <2>0, <2>1, FS_AddElement DEF RowsOf
  <2>2. CASE geometrylog' = geometrylog
    BY <2>0, <2>2
  <2>3. ASSUME NEW g \in RowsOf(geometrylog, e), geometrylog' = geometrylog \ {g}
        PROVE  /\ geometrylog' \subseteq GeomRow /\ IsFiniteSet(geometrylog')
               /\ \A d \in Entity : d # e => RowsOf(geometrylog', d) = RowsOf(geometrylog, d)
    <3>1. geometrylog' \subseteq geometrylog
      BY <2>3
    <3> QED
      BY <2>0, <2>3, <3>1, FS_Subset DEF RowsOf
  <2> QED
    BY <1>5, <2>1, <2>2, <2>3
<1>7. /\ reviewState' \in [Sub -> ReviewState] /\ \A x \in Sub : x # s => reviewState'[x] = reviewState[x]
      /\ status' \in [Entity -> {"SURVEY_SUBMITTED", "VALIDATED", "MARKED_BAD"}]
      /\ \A d \in Entity : d # e => status'[d] = status[d]
  BY <1>1 DEF ReviewInv, ReviewTypeOK, ReviewState
<1>8. ReviewTypeOK'
  BY <1>1, <1>2, <1>6, <1>7 DEF ReviewInv, ReviewTypeOK
<1>9. ASSUME NEW d \in Entity, d # e PROVE ReviewOf(d)'
  <2>1. verdict[d] # None => verdict[d].sub \in Sub /\ EntityOf[verdict[d].sub] = d
    BY Verdicts DEF ReviewInv, ReviewOf
  <2>2. verdict[d] # None => reviewState'[verdict[d].sub] = reviewState[verdict[d].sub]
    BY <1>7, <1>9, <1>e, <2>1
  <2>3. WritesOf(d)' = WritesOf(d)
    BY <1>1 DEF WritesOf
  <2> QED
    BY <1>1, <1>2, <1>6, <1>7, <1>9, <2>2, <2>3, OtherEntity
<1>10. ReviewOf(e)'
  BY <1>2 DEF ReviewOf
<1> QED
  BY <1>1, <1>6, <1>8, <1>9, <1>10 DEF ReviewInv

\* ODK Central and the geometry log agree with a review that has been written.
LEMMA ReviewFits == ReviewInv => ReviewAgrees
<1> SUFFICES ASSUME ReviewInv, NEW e \in Entity, verdict[e] # None,
                    updating = None \/ EntityOf[updating.sub] # e,
                    \A w \in writes : EntityOf[w.sub] # e
             PROVE  /\ reviewState[verdict[e].sub] = verdict[e].verdict
                    /\ status[e] = IF verdict[e].verdict = "approved" THEN "VALIDATED" ELSE "MARKED_BAD"
                    /\ verdict[e].verdict = "approved" <=> RowsOf(geometrylog, e) = {}
  BY DEF ReviewAgrees
<1>1. Written(e, verdict[e]) /\ WritesOf(e) = {}
  BY DEF ReviewInv, ReviewOf, WritesOf
<1>2. verdict[e].verdict \in {"approved", "hasIssues"}
  BY Verdicts DEF ReviewInv, Verdict
<1> QED
  BY <1>1, <1>2 DEF Written

-----------------------------------------------------------------------------
(* The modal. *)

LEMMA LogAsked ==
  ASSUME ModalTypeOK, GetGeometryLog
  PROVE  /\ asked' \in Nat /\ badGeomLogList' \subseteq GeomRow
         /\ logCalls' \subseteq [n : 1..asked', answer : (SUBSET GeomRow) \union {None}]
<1>1. asked \in Nat /\ asked' = asked + 1 /\ badGeomLogList' = badGeomLogList
      /\ logCalls' = logCalls \union {[n |-> asked + 1, answer |-> None]}
  BY DEF ModalTypeOK, GetGeometryLog
<1>2. asked' \in Nat /\ asked + 1 \in 1..asked' /\ 1..asked \subseteq 1..asked'
  BY <1>1
<1>3. [n |-> asked + 1, answer |-> None] \in [n : 1..asked', answer : (SUBSET GeomRow) \union {None}]
  BY <1>2
<1>4. [n : 1..asked, answer : (SUBSET GeomRow) \union {None}]
        \subseteq [n : 1..asked', answer : (SUBSET GeomRow) \union {None}]
  BY <1>2
<1> QED
  BY <1>1, <1>2, <1>3, <1>4 DEF ModalTypeOK

LEMMA ModalKept ==
  ASSUME ModalTypeOK, UNCHANGED modalVars
  PROVE  ModalTypeOK'
BY DEF ModalTypeOK, modalVars

LEMMA ModalPage ==
  ASSUME ModalTypeOK, page_step
  PROVE  ModalTypeOK'
<1>1. CASE UNCHANGED modalVars
  BY <1>1, ModalKept
<1>2. CASE modal # NoSub /\ GetGeometryLog /\ reviewStatus' = modal.state /\ UNCHANGED modal
  <2>1. modal.state \in ReviewState
    BY <1>2 DEF ModalTypeOK
  <2> QED
    BY <1>2, <2>1, LogAsked DEF ModalTypeOK
<1> QED
  BY <1>1, <1>2 DEF page_step

LEMMA ModalUser ==
  ASSUME ModalTypeOK, TableTypeOK,
         \/ \E s \in Sub : SetUpdateReviewStatusModal(s)
         \/ \E v \in Verdict : setReviewStatus(v)
         \/ Cancel \/ handleStatusUpdate \/ review_answered
  PROVE  ModalTypeOK'
<1>1. ASSUME NEW s \in Sub, SetUpdateReviewStatusModal(s) PROVE ModalTypeOK'
  <2>1. table.rows[s] \in ReviewState
    BY <1>1 DEF SetUpdateReviewStatusModal, TableTypeOK
  <2>2. GetGeometryLog /\ modal' = [sub |-> s, state |-> table.rows[s]] /\ reviewStatus' = table.rows[s]
    BY <1>1 DEF SetUpdateReviewStatusModal
  <2> QED
    BY <2>1, <2>2, LogAsked DEF ModalTypeOK
<1>2. ASSUME NEW v \in Verdict, setReviewStatus(v) PROVE ModalTypeOK'
  BY <1>2 DEF setReviewStatus, ModalTypeOK, ReviewState
<1>3. ASSUME closed, UNCHANGED <<badGeomLogList, logCalls, asked>> PROVE ModalTypeOK'
  BY <1>3 DEF closed, ModalTypeOK, ReviewState
<1>4. CASE Cancel
  BY <1>3, <1>4 DEF Cancel
<1>5. CASE handleStatusUpdate
  BY <1>3, <1>5, ModalKept DEF handleStatusUpdate, modalVars
<1>6. ASSUME NEW ws, after_review(ws) PROVE ModalTypeOK'
  BY <1>3, <1>6 DEF after_review
<1>7. CASE review_answered
  BY <1>6, <1>7 DEF review_answered
<1> QED
  BY <1>1, <1>2, <1>4, <1>5, <1>7

LEMMA ModalAnswers ==
  ASSUME ModalTypeOK, ReviewTypeOK, NEW c \in logCalls,
         read_geom_logs(c) \/ SetGeometryLog(c) \/ lose_log(c)
  PROVE  ModalTypeOK'
<1>0. c \in [n : 1..asked, answer : (SUBSET GeomRow) \union {None}] /\ geometrylog \subseteq GeomRow
  BY DEF ModalTypeOK, ReviewTypeOK
<1>1. CASE read_geom_logs(c)
  <2>1. [c EXCEPT !.answer = geometrylog] \in [n : 1..asked, answer : (SUBSET GeomRow) \union {None}]
    BY <1>0
  <2> QED
    BY <1>1, <2>1 DEF read_geom_logs, ModalTypeOK
<1>2. CASE SetGeometryLog(c)
  BY <1>0, <1>2 DEF SetGeometryLog, ModalTypeOK
<1>3. CASE lose_log(c)
  BY <1>3 DEF lose_log, ModalTypeOK
<1> QED
  BY <1>1, <1>2, <1>3

-----------------------------------------------------------------------------
(* Both pages together. *)

PagesInv == PageInv /\ TableInv /\ ModalTypeOK /\ ReviewInv

LEMMA PageKept ==
  ASSUME PageInv, UNCHANGED pageVars
  PROVE  PageInv'
<1>1. UNCHANGED <<rights, authDetails, board, old, page, boundaries, selectedTask, shown, activity,
                  loading, calls, sent, answered, doubts, blind, elsewhere, overlaps, own, events, others>>
  BY DEF pageVars
<1>2. PageTypeOK' /\ Opened'
  BY <1>1 DEF PageInv, PageTypeOK, Opened
<1> QED
  BY <1>1, <1>2, Quiet DEF PageInv

LEMMA PageOther ==
  ASSUME PageInv, other_step
  PROVE  PageInv'
<1>1. /\ UNCHANGED <<rights, authDetails, board, old, page, boundaries, selectedTask, shown, activity,
                     loading, calls, sent, answered, doubts, blind, elsewhere, overlaps, own, events>>
      /\ others < MaxOthers /\ others' = others + 1
  BY DEF other_step
<1>2. others' \in 0..MaxOthers
  <2>1. others \in 0..MaxOthers
    BY DEF PageInv, PageTypeOK
  <2> QED
    BY <1>1, <2>1, PageAssumption
<1>3. PageTypeOK' /\ Opened'
  BY <1>1, <1>2 DEF PageInv, PageTypeOK, Opened
<1> QED
  BY <1>1, <1>3, Quiet DEF PageInv

LEMMA PageShown ==
  ASSUME PageInv, OnTable, NEW q \in Query, show(q)
  PROVE  PageInv'
<1>1. /\ UNCHANGED <<rights, authDetails, board, old, boundaries, selectedTask, shown, activity,
                     loading, calls, sent, answered, doubts, blind, elsewhere, overlaps, own, events, others>>
      /\ page' = [name |-> "table", task_id |-> q.task_id, pagination |-> q.pagination]
  BY DEF show
<1>2. page' \in Page
  <2>1. q.task_id \in Task \union {NoTask} /\ q.pagination \in {1, 2}
    BY SubmissionsAssumption DEF Query
  <2> QED
    BY <1>1, <2>1 DEF Page
<1>3. PageTypeOK' /\ Opened'
  BY <1>1, <1>2 DEF PageInv, PageTypeOK, Opened
<1>4. page'.name = page.name
  BY <1>1 DEF OnTable
<1> QED
  BY <1>1, <1>3, <1>4, Quiet DEF PageInv

LEMMA PagesStart == Init => PagesInv
<1> SUFFICES ASSUME Init PROVE PagesInv
  OBVIOUS
<1>1. PageInv
  BY PageStart DEF Init
<1>2. MaxTable \in Nat /\ MaxReviews \in Nat
  BY SubmissionsAssumption
<1>3. tableSent \in Nat /\ tableSent \in 1..tableSent
  BY <1>2 DEF Init
<1>4. OnTable => page = Table(NoTask) /\ page.task_id = NoTask /\ page.pagination = 1
  BY DEF Init, PageInit, OnTable, Project, Table
<1>5. TableInv
  <2> DEFINE c == [n |-> tableSent, query |-> [task_id |-> NoTask, pagination |-> 1], answer |-> None]
  <2>1. [task_id |-> NoTask, pagination |-> 1] \in Query
    BY FirstPage DEF Query
  <2>2. c \in [n : 1..tableSent, query : Query, answer : [Sub -> ReviewState] \union {None}]
        /\ c.query = [task_id |-> NoTask, pagination |-> 1]
    BY <1>3, <2>1
  <2>3. tableCalls \subseteq {c} /\ table = None /\ tableLoading \in BOOLEAN
    BY DEF Init, OnTable
  <2> HIDE DEF c
  <2>4. TableTypeOK
    BY <1>3, <1>4, <2>2, <2>3, FirstPage DEF TableTypeOK
  <2>5. TableFits
    BY <1>4, <2>2, <2>3 DEF TableFits
  <2> QED
    BY <2>4, <2>5 DEF TableInv
<1>6. ModalTypeOK
  <2>1. asked \in Nat
    BY <1>2 DEF Init
  <2> QED
    BY <2>1 DEF Init, ModalTypeOK, ReviewState
<1>7. ReviewInv
  <2>1. ReviewTypeOK
    BY DEF Init, ReviewTypeOK, ReviewState
  <2>2. \A e \in Entity : ReviewOf(e)
    BY DEF Init, ReviewOf
  <2> QED
    BY <2>1, <2>2, FS_EmptySet DEF Init, ReviewInv
<1> QED
  BY <1>1, <1>5, <1>6, <1>7 DEF PagesInv

LEMMA PagesStep == PagesInv /\ [Next]_vars => PagesInv'
<1> SUFFICES ASSUME PagesInv, [Next]_vars PROVE PagesInv'
  OBVIOUS
<1>0. PageInv /\ TableInv /\ ModalTypeOK /\ ReviewInv /\ PageTypeOK /\ TableTypeOK /\ ReviewTypeOK
  BY DEF PagesInv, PageInv, TableInv, ReviewInv
<1>1. CASE UNCHANGED vars
  <2>1. UNCHANGED pageVars /\ UNCHANGED tableVars /\ UNCHANGED modalVars /\ UNCHANGED reviewVars
    BY <1>1 DEF vars
  <2>2. page' = page
    BY <2>1 DEF pageVars
  <2> QED
    BY <1>0, <2>1, <2>2, PageKept, TableKept, ModalKept, ReviewKept DEF PagesInv
<1>2. CASE page_step
  <2>1. PageNext /\ UNCHANGED reviewVars
    BY <1>2 DEF page_step
  <2> QED
    BY <1>0, <1>2, <2>1, PageStep, TablePage, ModalPage, ReviewKept DEF PagesInv
<1>3. ASSUME NEW t \in Task \union {NoTask}, setFilter(t) PROVE PagesInv'
  <2> DEFINE q == [task_id |-> t, pagination |-> 1]
  <2>1. q \in Query
    BY FirstPage DEF Query
  <2>2. OnTable /\ show(q) /\ UNCHANGED modalVars /\ UNCHANGED reviewVars
    BY <1>3 DEF setFilter
  <2> HIDE DEF q
  <2>3. PageInv'
    BY <1>0, <2>1, <2>2, PageShown
  <2>4. TableInv'
    BY <1>0, <1>3, TableSteps
  <2> QED
    BY <1>0, <2>2, <2>3, <2>4, ModalKept, ReviewKept DEF PagesInv
<1>4. ASSUME NEW p \in 1..Pages, handleChangePage(p) PROVE PagesInv'
  <2> DEFINE q == [task_id |-> page.task_id, pagination |-> p]
  <2>2. OnTable /\ show(q) /\ UNCHANGED modalVars /\ UNCHANGED reviewVars
    BY <1>4 DEF handleChangePage
  <2>1. q \in Query
    BY <1>0, <2>2 DEF Query, PageTypeOK, Page, OnTable
  <2> HIDE DEF q
  <2>3. PageInv'
    BY <1>0, <2>1, <2>2, PageShown
  <2>4. TableInv'
    BY <1>0, <1>4, TableSteps
  <2> QED
    BY <1>0, <2>2, <2>3, <2>4, ModalKept, ReviewKept DEF PagesInv
<1>5. CASE refreshTable
  <2>1. UNCHANGED pageVars /\ UNCHANGED modalVars /\ UNCHANGED reviewVars
    BY <1>5 DEF refreshTable
  <2>2. TableInv'
    BY <1>0, <1>5, TableSteps
  <2> QED
    BY <1>0, <2>1, <2>2, PageKept, ModalKept, ReviewKept DEF PagesInv
<1>6. ASSUME NEW c \in tableCalls, submission_table(c) \/ SetSubmissionTable(c) \/ lose_table(c) PROVE PagesInv'
  <2>1. (UNCHANGED pageVars \/ other_step) /\ UNCHANGED modalVars /\ UNCHANGED reviewVars
    BY <1>6 DEF submission_table, SetSubmissionTable, lose_table
  <2>2. TableInv'
    BY <1>0, <1>6, TableAnswers
  <2> QED
    BY <1>0, <2>1, <2>2, PageKept, PageOther, ModalKept, ReviewKept DEF PagesInv
<1>7. CASE (\E s \in Sub : SetUpdateReviewStatusModal(s)) \/ (\E v \in Verdict : setReviewStatus(v)) \/ Cancel
  <2>1. UNCHANGED pageVars /\ UNCHANGED tableVars /\ UNCHANGED reviewVars
    BY <1>7 DEF SetUpdateReviewStatusModal, setReviewStatus, Cancel
  <2>2. ModalTypeOK'
    BY <1>0, <1>7, ModalUser
  <2>3. page' = page
    BY <2>1 DEF pageVars
  <2> QED
    BY <1>0, <2>1, <2>2, <2>3, PageKept, TableKept, ReviewKept DEF PagesInv
<1>8. CASE handleStatusUpdate
  <2>1. UNCHANGED pageVars /\ UNCHANGED tableVars
    BY <1>8 DEF handleStatusUpdate
  <2>2. ModalTypeOK' /\ ReviewInv'
    BY <1>0, <1>8, ModalUser, ReviewSent
  <2>3. page' = page
    BY <2>1 DEF pageVars
  <2> QED
    BY <1>0, <2>1, <2>2, <2>3, PageKept, TableKept DEF PagesInv
<1>9. CASE review_answered
  <2>1. ASSUME NEW ws, after_review(ws) PROVE PageInv' /\ TableInv'
    <3>1. UNCHANGED pageVars /\ page' = page /\ UNCHANGED <<tableLoading, tableCalls, tableSent>>
      BY <2>1 DEF after_review, pageVars
    <3>2. updating.verdict \in Verdict
      BY <1>0, <2>1, UpdateFields DEF ReviewTypeOK, after_review
    <3>3. \/ table' = table
          \/ table' = IF table # None THEN [table EXCEPT !.rows[updating.sub] = updating.verdict] ELSE table
      BY <2>1 DEF after_review
    <3> QED
      BY <1>0, <3>1, <3>2, <3>3, PageKept, TableRow
  <2>2. PageInv' /\ TableInv'
    BY <1>9, <2>1 DEF review_answered
  <2> QED
    BY <1>0, <1>9, <2>2, ModalUser, ReviewFollowed DEF PagesInv
<1>10. CASE update_review_state \/ lose_review
  <2>1. (UNCHANGED pageVars \/ other_step) /\ UNCHANGED tableVars /\ UNCHANGED modalVars
    BY <1>10 DEF update_review_state, lose_review
  <2>2. page' = page
    BY <2>1 DEF pageVars, other_step
  <2> QED
    BY <1>0, <1>10, <2>1, <2>2, PageKept, PageOther, TableKept, ModalKept, ReviewHandled DEF PagesInv
<1>11. ASSUME NEW c \in logCalls, read_geom_logs(c) \/ SetGeometryLog(c) \/ lose_log(c) PROVE PagesInv'
  <2>1. (UNCHANGED pageVars \/ other_step) /\ UNCHANGED tableVars /\ UNCHANGED reviewVars
    BY <1>11 DEF read_geom_logs, SetGeometryLog, lose_log
  <2>2. page' = page
    BY <2>1 DEF pageVars, other_step
  <2>3. ModalTypeOK'
    BY <1>0, <1>11, ModalAnswers
  <2> QED
    BY <1>0, <2>1, <2>2, <2>3, PageKept, PageOther, TableKept, ReviewKept DEF PagesInv
<1>12. ASSUME NEW w \in writes,
              geometry_written(w) \/ set_odk_entities_mapping_status(w) \/ lose_write(w)
       PROVE  PagesInv'
  <2>1. (UNCHANGED pageVars \/ other_step) /\ UNCHANGED tableVars /\ UNCHANGED modalVars
    BY <1>12 DEF geometry_written, set_odk_entities_mapping_status, lose_write
  <2>2. page' = page
    BY <2>1 DEF pageVars, other_step
  <2>3. ReviewInv'
    BY <1>0, <1>12, GeometryWritten, StatusWritten, WriteLost
  <2> QED
    BY <1>0, <2>1, <2>2, <2>3, PageKept, PageOther, TableKept, ModalKept DEF PagesInv
<1>13. ASSUME NEW s \in Sub, NEW v \in Verdict, other_review(s, v) PROVE PagesInv'
  <2>1. other_step /\ UNCHANGED tableVars /\ UNCHANGED modalVars
    BY <1>13 DEF other_review
  <2>2. page' = page
    BY <2>1 DEF other_step
  <2>3. ReviewInv'
    BY <1>0, <1>13, ReviewedByOther
  <2> QED
    BY <1>0, <2>1, <2>2, <2>3, PageOther, TableKept, ModalKept DEF PagesInv
<1> QED
  BY <1>1, <1>2, <1>3, <1>4, <1>5, <1>6, <1>7, <1>8, <1>9, <1>10, <1>11, <1>12, <1>13 DEF Next

LEMMA PagesInvHolds == Spec => []PagesInv
BY PagesStart, PagesStep, PTL DEF Spec

-----------------------------------------------------------------------------
(* The theorems. *)

\* Everything the two pages, their requests, the backend and ODK Central hold has its type.
THEOREM PagesTypeCorrect == Spec => []TypeOK
<1>1. PagesInv => TypeOK
  BY DEF PagesInv, PageInv, TableInv, TableTypeOK, ModalTypeOK, ReviewInv, ReviewTypeOK, TypeOK
<1> QED
  BY <1>1, PagesInvHolds, PTL

\* For any tasks, requests and orders of their answers: the dialog is about the task it is open
\* for, and the map is not older than the user's own events, unless one of the causes that the
\* property names has occurred.
THEOREM CopiesCurrentHolds == Spec => []CopiesCurrent
<1>1. PagesInv => CopiesCurrent
  BY CopiesFit DEF PagesInv
<1> QED
  BY <1>1, PagesInvHolds, PTL

\* For any tasks, events and requests: an event that was offered for what the page had been told
\* fits the state of its task when it is committed, although the backend takes any event.
THEOREM EventFitsHolds == Spec => EventFits
<1>1. ASSUME PagesInv, [Next]_vars
      PROVE  [\A c \in calls :
                add_new_task_event(c) /\ c.sure /\ mapper(rights)
                => c.event \in actions[board[c.task].state]]_pageVars
  <2>1. ASSUME NEW c \in calls, add_new_task_event(c), c.sure
        PROVE  c.event \in actions[board[c.task].state]
    <3>1. c \in Events /\ c.answer = None
      BY <2>1 DEF add_new_task_event, Events, Of
    <3> QED
      BY <1>1, <2>1, <3>1 DEF PagesInv, PageInv, SureFits
  <2> QED
    BY <2>1
<1> QED
  BY <1>1, PagesInvHolds, PTL DEF Spec, EventFits

\* For any number of requests and filters: once nothing is under way, and the last answer is
\* that to the last request, the rows are those of the filter and the page that are shown.
THEOREM TableShowsFilterHolds == Spec => []TableShowsFilter
<1>1. PagesInv => TableShowsFilter
  BY TableFitsShown DEF PagesInv
<1> QED
  BY <1>1, PagesInvHolds, PTL

\* For any submissions, entities and reviews: when the requests of a review have been handled,
\* the review state, the status of the entity and the geometry log agree with it, unless one of
\* the causes that clear verdict has occurred.
THEOREM ReviewAgreesHolds == Spec => []ReviewAgrees
<1>1. PagesInv => ReviewAgrees
  BY ReviewFits DEF PagesInv
<1> QED
  BY <1>1, PagesInvHolds, PTL
=============================================================================

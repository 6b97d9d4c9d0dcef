------------------------ MODULE FrontendStoresProofs ------------------------
(***************************************************************************)
(* Proofs about the smaller stores of the frontends, for any number of     *)
(* tasks, browsers, organisations, projects, users and requests.           *)
(*                                                                         *)
(* ShownIsBoard and TakeoverOnlyBlind rest on three facts: no two rows     *)
(* begin at once (Numbered), every browser shows what follows from the     *)
(* rows it has received (Views), and a MAP in flight was clicked on a task *)
(* shown as unlocked (Clicked).  DetailsFit and OneDecision rest on which  *)
(* requests are under way alone (Alone, Fitting); SentFits on the one      *)
(* request for details that may still change the form (AsksKept,           *)
(* FormKept); ListExact on the one request that may be under way while     *)
(* nothing has gone astray (ListKept); TilesFit and CommentsFit on what    *)
(* the answers under way will show (Listed; Fresh, CommentsKept).          *)
(***************************************************************************)
EXTENDS MCFrontendStores, TLAPS, WellFoundedInduction

-----------------------------------------------------------------------------
(* The rows of a task. *)

LEMMA HasMax ==
  ASSUME NEW n \in Nat, NEW S \in SUBSET (1..n), S # {}
  PROVE  Max(S) \in S /\ \A i \in S : i <= Max(S)
<1> DEFINE T == {n - i : i \in S}
<1>1. T \subseteq Nat /\ T # {}
  <2>1. \A i \in S : i \in 1..n /\ n - i \in Nat
    OBVIOUS
  <2> QED
    BY <2>1
<1>2. PICK x \in T : \A y \in T : ~(<<y, x>> \in OpToRel(<, Nat))
  BY <1>1, NatLessThanWellFounded, WFMin
<1>3. \A y \in T : ~(y < x)
  BY <1>1, <1>2 DEF OpToRel
<1>4. \E m \in S : \A i \in S : m >= i
  BY <1>3
<1> QED
  BY <1>4 DEF Max

LEMMA LastRow ==
  ASSUME TypeOK, NEW n \in 0..Len(rows), NEW t, RowsOf(n, t) # {}
  PROVE  /\ Max(RowsOf(n, t)) \in 1..Len(rows)
         /\ Max(RowsOf(n, t)) \in RowsOf(n, t)
         /\ \A i \in RowsOf(n, t) : i <= Max(RowsOf(n, t))
         /\ rows[Max(RowsOf(n, t))] \in Row
         /\ rows[Max(RowsOf(n, t))].task = t
<1>1. RowsOf(n, t) \in SUBSET (1..n) /\ n \in Nat /\ 1..n \subseteq 1..Len(rows)
  BY DEF RowsOf, TypeOK
<1>2. /\ Max(RowsOf(n, t)) \in RowsOf(n, t)
      /\ \A i \in RowsOf(n, t) : i <= Max(RowsOf(n, t))
  BY <1>1, HasMax
<1> HIDE DEF TypeOK
<1>3. \A i \in RowsOf(n, t) : i \in 1..Len(rows) /\ rows[i] \in Row /\ rows[i].task = t
  BY <1>1 DEF RowsOf, TypeOK
<1> QED
  BY <1>2, <1>3

LEMMA LatestType ==
  ASSUME TypeOK, NEW n \in 0..Len(rows), NEW t
  PROVE  /\ getLatestStatePerTask(n, t) \in MappingState \union {NoState}
         /\ OrUnlocked(getLatestStatePerTask(n, t)) \in MappingState
<1>1. getLatestStatePerTask(n, t) \in MappingState \union {NoState}
  <2>1. CASE RowsOf(n, t) = {}
    BY <2>1 DEF getLatestStatePerTask
  <2>2. CASE RowsOf(n, t) # {}
    <3>1. rows[Max(RowsOf(n, t))] \in Row
      BY <2>2, LastRow
    <3> QED
      BY <2>2, <3>1 DEF getLatestStatePerTask, Row
  <2> QED
    BY <2>1, <2>2
<1> QED
  BY <1>1 DEF OrUnlocked, MappingState

LEMMA FeatcolType ==
  ASSUME TypeOK, NEW n \in 0..Len(rows)
  PROVE  appendTaskStatesToFeatcol(n) \in [Task -> MappingState]
BY LatestType DEF appendTaskStatesToFeatcol

\* What follows from the first rows is not changed by a new one.
LEMMA CommitKeeps ==
  ASSUME TypeOK, NEW q \in open, commit(q)
  PROVE  /\ Len(rows') = Len(rows) + 1
         /\ rows'[Len(rows) + 1] = [task |-> q.task, event |-> q.event, stamp |-> q.stamp,
                                    state |-> set_task_state[q.event]]
         /\ \A i \in 1..Len(rows) : rows'[i] = rows[i]
         /\ \A n \in 0..Len(rows) : \A t :
              /\ RowsOf(n, t)' = RowsOf(n, t)
              /\ getLatestStatePerTask(n, t)' = getLatestStatePerTask(n, t)
<1>1. /\ Len(rows') = Len(rows) + 1
      /\ rows'[Len(rows) + 1] = [task |-> q.task, event |-> q.event, stamp |-> q.stamp,
                                 state |-> set_task_state[q.event]]
      /\ \A i \in 1..Len(rows) : rows'[i] = rows[i]
  BY DEF commit, TypeOK
<1>2. ASSUME NEW n \in 0..Len(rows), NEW t
      PROVE  /\ RowsOf(n, t)' = RowsOf(n, t)
             /\ getLatestStatePerTask(n, t)' = getLatestStatePerTask(n, t)
  <2>1. 1..n \subseteq 1..Len(rows)
    BY DEF TypeOK
  <2>2. RowsOf(n, t)' = RowsOf(n, t)
    BY <1>1, <2>1 DEF RowsOf
  <2>3. CASE RowsOf(n, t) = {}
    BY <2>2, <2>3 DEF getLatestStatePerTask
  <2>4. CASE RowsOf(n, t) # {}
    <3>1. rows'[Max(RowsOf(n, t))] = rows[Max(RowsOf(n, t))]
      BY <1>1, <2>4, LastRow
    <3> QED
      BY <2>2, <2>4, <3>1 DEF getLatestStatePerTask
  <2> QED
    BY <2>2, <2>3, <2>4
<1> QED
  BY <1>1, <1>2

-----------------------------------------------------------------------------
(* What the store actions do to the store of their browser. *)

LEMMA MountStore ==
  ASSUME TypeOK, NEW b \in Browser, onMount(b)
  PROVE  /\ store' \in [Browser -> Store]
         /\ \A c \in Browser \ {b} : store'[c] = store[c]
         /\ store'[b].mounted /\ store'[b].seen = Len(rows)
         /\ store'[b].selectedTaskId = store[b].selectedTaskId
         /\ store'[b].featcol = appendTaskStatesToFeatcol(Len(rows))
         /\ UNCHANGED <<rows, open, clock>>
<1>0. UNCHANGED <<rows, open, clock>>
  BY DEF onMount
<1>1. /\ Len(rows) \in Nat /\ store \in [Browser -> Store]
      /\ appendTaskStatesToFeatcol(Len(rows)) \in [Task -> MappingState]
  BY FeatcolType DEF TypeOK
<1>2. /\ store' \in [Browser -> Store]
      /\ \A c \in Browser \ {b} : store'[c] = store[c]
      /\ store'[b].mounted /\ store'[b].seen = Len(rows)
      /\ store'[b].selectedTaskId = store[b].selectedTaskId
      /\ store'[b].featcol = appendTaskStatesToFeatcol(Len(rows))
  BY <1>1 DEF onMount, Store
<1> QED
  BY <1>0, <1>2

LEMMA SelectStore ==
  ASSUME TypeOK, NEW b \in Browser, NEW t \in Task, setSelectedTaskId(b, t)
  PROVE  /\ store' \in [Browser -> Store]
         /\ \A c \in Browser \ {b} : store'[c] = store[c]
         /\ store'[b].mounted /\ store'[b].seen = store[b].seen
         /\ store'[b].selectedTaskId = t
         /\ store'[b].selectedTaskState
              = OrUnlocked(getLatestStatePerTask(store[b].seen, t))
         /\ store'[b].featcol = store[b].featcol
         /\ UNCHANGED <<rows, open, clock>>
<1>0. UNCHANGED <<rows, open, clock>>
  BY DEF setSelectedTaskId
<1>1. /\ store \in [Browser -> Store]
      /\ store[b].seen \in 0..Len(rows)
  BY DEF TypeOK, Store
<1>2. OrUnlocked(getLatestStatePerTask(store[b].seen, t)) \in MappingState
  BY <1>1, LatestType
<1>3. /\ store' \in [Browser -> Store]
      /\ \A c \in Browser \ {b} : store'[c] = store[c]
      /\ store'[b].mounted /\ store'[b].seen = store[b].seen
      /\ store'[b].selectedTaskId = t
      /\ store'[b].selectedTaskState
           = OrUnlocked(getLatestStatePerTask(store[b].seen, t))
      /\ store'[b].featcol = store[b].featcol
  BY <1>1, <1>2 DEF setSelectedTaskId, Store
<1> QED
  BY <1>0, <1>3

LEMMA ReceiveStore ==
  ASSUME TypeOK, NEW b \in Browser, NEW n \in 0..Len(rows), receive(b, n)
  PROVE  /\ store' \in [Browser -> Store]
         /\ \A c \in Browser \ {b} : store'[c] = store[c]
         /\ store'[b].mounted /\ store'[b].seen = n
         /\ store'[b].selectedTaskId = store[b].selectedTaskId
         /\ store'[b].selectedTaskState =
              IF RowsOf(n, store[b].selectedTaskId) = {} THEN store[b].selectedTaskState
              ELSE getLatestStatePerTask(n, store[b].selectedTaskId)
         /\ store'[b].featcol = appendTaskStatesToFeatcol(n)
         /\ UNCHANGED <<rows, open, clock>>
<1> DEFINE s == IF RowsOf(n, store[b].selectedTaskId) = {} THEN store[b].selectedTaskState
                ELSE getLatestStatePerTask(n, store[b].selectedTaskId)
<1>0. UNCHANGED <<rows, open, clock>>
  BY DEF receive
<1>1. /\ store \in [Browser -> Store] /\ n \in Nat
      /\ appendTaskStatesToFeatcol(n) \in [Task -> MappingState]
  BY FeatcolType DEF TypeOK
<1>2. s \in MappingState \union {NoState}
  BY <1>1, LatestType DEF Store
<1>3. /\ store[b].mounted
      /\ store' = [store EXCEPT ![b].seen = n, ![b].selectedTaskState = s,
                     ![b].featcol = appendTaskStatesToFeatcol(n)]
  BY <1>1 DEF receive
<1> HIDE DEF s
<1>4. /\ store' \in [Browser -> Store]
      /\ \A c \in Browser \ {b} : store'[c] = store[c]
      /\ store'[b].mounted /\ store'[b].seen = n
      /\ store'[b].selectedTaskId = store[b].selectedTaskId
      /\ store'[b].selectedTaskState = s
      /\ store'[b].featcol = appendTaskStatesToFeatcol(n)
  BY <1>1, <1>2, <1>3 DEF Store
<1> QED
  BY <1>0, <1>4 DEF s

-----------------------------------------------------------------------------
(* Type correctness. *)

LEMMA SendType ==
  ASSUME TypeOK, NEW t \in Task, NEW e \in TaskEvent, NEW b \in Browser \union {NoBrowser},
         NEW n \in Nat, send(t, e, b, n)
  PROVE  TypeOK'
<1>1. clock' \in Nat /\ rows' = rows /\ store' = store
  BY DEF send, TypeOK
<1>2. [task |-> t, event |-> e, stamp |-> clock', by |-> b, seen |-> n] \in Request
  BY <1>1 DEF Request
<1>3. open' \subseteq Request
  BY <1>2 DEF send, TypeOK
<1> QED
  BY <1>1, <1>3 DEF TypeOK

LEMMA ClickSends ==
  ASSUME TypeOK, NEW b \in Browser, NEW e \in TaskEvent, click(b, e)
  PROVE  /\ store[b].selectedTaskId \in Task
         /\ store[b].seen \in 0..Len(rows)
         /\ send(store[b].selectedTaskId, e, b, store[b].seen)
<1>1. store[b] \in Store /\ store[b].seen <= Len(rows)
  BY DEF TypeOK
<1> QED
  BY <1>1 DEF click, Store

LEMMA StoreType ==
  ASSUME TypeOK, NEW b \in Browser, store' \in [Browser -> Store],
         \A c \in Browser \ {b} : store'[c] = store[c], store'[b].seen <= Len(rows),
         UNCHANGED <<rows, open, clock>>
  PROVE  TypeOK'
BY DEF TypeOK

LEMMA TypeInductive == TypeOK /\ [Next]_vars => TypeOK'
<1> SUFFICES ASSUME TypeOK, [Next]_vars PROVE TypeOK'
  OBVIOUS
<1>1. ASSUME NEW t \in Task, NEW e \in OtherEvent, post_elsewhere(t, e) PROVE TypeOK'
  BY <1>1, StoreAssumption, SendType DEF post_elsewhere
<1>2. ASSUME NEW q \in open, commit(q) PROVE TypeOK'
  <2>1. q \in Request
    BY DEF TypeOK
  <2>2. set_task_state[q.event] \in MappingState \union {NoState}
    BY <2>1 DEF Request, set_task_state, MappingState, TaskEvent
  <2>3. [task |-> q.task, event |-> q.event, stamp |-> q.stamp,
         state |-> set_task_state[q.event]] \in Row
    BY <2>1, <2>2 DEF Request, Row
  <2>4. rows' \in Seq(Row) /\ Len(rows') = Len(rows) + 1
    BY <1>2, <2>3 DEF commit, TypeOK
  <2>5. \A b \in Browser : store[b].seen \in Nat /\ store[b].seen <= Len(rows) + 1
    BY DEF TypeOK, Store
  <2> QED
    BY <1>2, <2>4, <2>5 DEF commit, TypeOK
<1>3. ASSUME NEW q \in open, lose(q) PROVE TypeOK'
  BY <1>3 DEF lose, TypeOK
<1>0. Len(rows) \in Nat /\ \A b \in Browser : store[b].seen <= Len(rows)
  BY DEF TypeOK
<1>4. ASSUME NEW b \in Browser, onMount(b) PROVE TypeOK'
  <2>1. /\ store' \in [Browser -> Store] /\ store'[b].seen <= Len(rows)
        /\ \A c \in Browser \ {b} : store'[c] = store[c]
        /\ UNCHANGED <<rows, open, clock>>
    BY <1>0, <1>4, MountStore
  <2> QED
    BY <2>1, StoreType
<1>5. ASSUME NEW b \in Browser, NEW t \in Task, setSelectedTaskId(b, t) PROVE TypeOK'
  <2>1. /\ store' \in [Browser -> Store] /\ store'[b].seen <= Len(rows)
        /\ \A c \in Browser \ {b} : store'[c] = store[c]
        /\ UNCHANGED <<rows, open, clock>>
    BY <1>0, <1>5, SelectStore
  <2> QED
    BY <2>1, StoreType
<1>6. ASSUME NEW b \in Browser, NEW n \in 0..Len(rows), receive(b, n) PROVE TypeOK'
  <2>1. /\ store' \in [Browser -> Store] /\ store'[b].seen <= Len(rows)
        /\ \A c \in Browser \ {b} : store'[c] = store[c]
        /\ UNCHANGED <<rows, open, clock>>
    BY <1>0, <1>6, ReceiveStore
  <2> QED
    BY <2>1, StoreType
<1>7. ASSUME NEW b \in Browser, NEW e \in TaskEvent, click(b, e) PROVE TypeOK'
  <2>1. store[b].seen \in Nat
    BY DEF TypeOK, Store
  <2> QED
    BY <1>7, <2>1, ClickSends, SendType
<1>8. CASE UNCHANGED vars
  BY <1>8 DEF vars, TypeOK
<1> QED
  BY <1>1, <1>2, <1>3, <1>4, <1>5, <1>6, <1>7, <1>8 DEF Next

LEMMA TypeInitially == Init => TypeOK
<1> SUFFICES ASSUME Init PROVE TypeOK
  OBVIOUS
<1>1. [mounted |-> FALSE, seen |-> 0, selectedTaskId |-> NoTask, selectedTaskState |-> NoState,
       featcol |-> [t \in Task |-> "UNLOCKED_TO_MAP"]] \in Store
  BY DEF Store, MappingState
<1>2. store \in [Browser -> Store] /\ \A b \in Browser : store[b].seen = 0
  BY <1>1 DEF Init
<1>3. rows \in Seq(Row) /\ Len(rows) = 0
  BY DEF Init
<1>4. \A b \in Browser : store[b].seen <= Len(rows)
  BY <1>2, <1>3
<1> QED
  BY <1>2, <1>3, <1>4 DEF Init, TypeOK

\* The table, the requests in flight and every browser's store are of their types, and no
\* browser has received more rows than there are.
THEOREM StoreTypeCorrect == Spec => []TypeOK
BY TypeInitially, TypeInductive, PTL DEF Spec

-----------------------------------------------------------------------------
(* No two transactions begin at once. *)

Numbered ==
  /\ \A i, j \in 1..Len(rows) : rows[i].stamp = rows[j].stamp => i = j
  /\ \A i \in 1..Len(rows) : /\ rows[i].stamp <= clock
                             /\ rows[i].state = set_task_state[rows[i].event]
  /\ \A q \in open : /\ q.stamp <= clock
                     /\ \A i \in 1..Len(rows) : rows[i].stamp # q.stamp
  /\ \A p, q \in open : p.stamp = q.stamp => p = q

LEMMA SendNumbered ==
  ASSUME TypeOK, Numbered, NEW t, NEW e, NEW b, NEW n, send(t, e, b, n)
  PROVE  Numbered'
<1> DEFINE new == [task |-> t, event |-> e, stamp |-> clock', by |-> b, seen |-> n]
<1>1. /\ rows' = rows /\ open' = open \union {new} /\ new.stamp = clock'
      /\ clock \in Nat /\ clock' = clock + 1
  BY DEF send, TypeOK
<1>2. \A i \in 1..Len(rows) : rows[i].stamp \in Nat /\ rows[i].stamp <= clock
  <2>1. \A i \in 1..Len(rows) : rows[i] \in Row
    BY DEF TypeOK
  <2> QED
    BY <2>1 DEF Numbered, Row
<1>3. \A q \in open : q.stamp \in Nat /\ q.stamp <= clock
  BY DEF TypeOK, Numbered, Request
<1> HIDE DEF new
<1>4. /\ \A i, j \in 1..Len(rows') : rows'[i].stamp = rows'[j].stamp => i = j
      /\ \A i \in 1..Len(rows') : /\ rows'[i].stamp <= clock'
                                  /\ rows'[i].state = set_task_state[rows'[i].event]
  <2>1. \A i, j \in 1..Len(rows') : rows'[i].stamp = rows'[j].stamp => i = j
    BY <1>1, Zenon DEF Numbered
  <2>2. \A i \in 1..Len(rows') : rows'[i].stamp <= clock'
    BY <1>1, <1>2
  <2>3. \A i \in 1..Len(rows') : rows'[i].state = set_task_state[rows'[i].event]
    BY <1>1, Zenon DEF Numbered
  <2> QED
    BY <2>1, <2>2, <2>3
<1>5. ASSUME NEW q \in open'
      PROVE  q.stamp <= clock' /\ \A i \in 1..Len(rows') : rows'[i].stamp # q.stamp
  <2>1. CASE q \in open
    BY <1>1, <1>3, <2>1 DEF Numbered
  <2>2. CASE q = new
    BY <1>1, <1>2, <2>2
  <2> QED
    BY <1>1, <2>1, <2>2
<1>6. ASSUME NEW p \in open', NEW q \in open', p.stamp = q.stamp PROVE p = q
  <2>1. \A r \in open : r.stamp # new.stamp
    BY <1>1, <1>3
  <2> QED
    BY <1>1, <1>6, <2>1 DEF Numbered
<1> QED
  BY <1>4, <1>5, <1>6 DEF Numbered

LEMMA CommitNumbered ==
  ASSUME TypeOK, Numbered, NEW q \in open, commit(q)
  PROVE  Numbered'
<1> DEFINE N == Len(rows)
<1>0. N \in Nat
  BY DEF TypeOK
<1>1. /\ N \in Nat /\ Len(rows') = N + 1
      /\ \A i \in 1..N : rows'[i] = rows[i]
      /\ rows'[N + 1].stamp = q.stamp
      /\ rows'[N + 1].state = set_task_state[rows'[N + 1].event]
  <2>1. /\ Len(rows') = N + 1
        /\ \A i \in 1..N : rows'[i] = rows[i]
        /\ rows'[N + 1] = [task |-> q.task, event |-> q.event, stamp |-> q.stamp,
                          state |-> set_task_state[q.event]]
    BY CommitKeeps
  <2> HIDE DEF N
  <2> QED
    BY <1>0, <2>1
<1>2. \A i \in 1..(N + 1) : i \in 1..N \/ i = N + 1
  BY <1>1
<1>3. open' = open \ {q} /\ clock' = clock
  BY DEF commit
<1> HIDE DEF N
<1>4. \A i, j \in 1..Len(rows') : rows'[i].stamp = rows'[j].stamp => i = j
  BY <1>1, <1>2 DEF Numbered, N
<1>5. \A i \in 1..Len(rows') : /\ rows'[i].stamp <= clock'
                               /\ rows'[i].state = set_task_state[rows'[i].event]
  BY <1>1, <1>2, <1>3 DEF Numbered, N
<1>6. \A p \in open' : /\ p.stamp <= clock'
                       /\ \A i \in 1..Len(rows') : rows'[i].stamp # p.stamp
  BY <1>1, <1>2, <1>3 DEF Numbered, N
<1>7. \A p, r \in open' : p.stamp = r.stamp => p = r
  BY <1>3 DEF Numbered
<1> QED
  BY <1>4, <1>5, <1>6, <1>7 DEF Numbered

-----------------------------------------------------------------------------
(* What a browser shows follows from the rows it has received. *)

Follows(s, n, t) ==
  IF RowsOf(n, t) = {} THEN s = "UNLOCKED_TO_MAP"
  ELSE s \in {getLatestStatePerTask(n, t), OrUnlocked(getLatestStatePerTask(n, t))}

View(b) ==
  /\ store[b].mounted => store[b].featcol = appendTaskStatesToFeatcol(store[b].seen)
  /\ ~store[b].mounted => store[b].selectedTaskId = NoTask
  /\ store[b].selectedTaskId # NoTask =>
       Follows(store[b].selectedTaskState, store[b].seen, store[b].selectedTaskId)

Views == \A b \in Browser : View(b)

\* A MAP in flight was clicked on a task its browser showed as unlocked.
Clicked ==
  \A q \in open : q.by # NoBrowser =>
    /\ q.seen <= Len(rows)
    /\ q.event = "MAP" => Follows("UNLOCKED_TO_MAP", q.seen, q.task)

IInv == TypeOK /\ Numbered /\ Views /\ Clicked

LEMMA CommitFollows ==
  ASSUME TypeOK, NEW q \in open, commit(q), NEW n \in 0..Len(rows), NEW s, NEW t
  PROVE  /\ Follows(s, n, t)' <=> Follows(s, n, t)
         /\ appendTaskStatesToFeatcol(n)' = appendTaskStatesToFeatcol(n)
<1>1. \A u : RowsOf(n, u)' = RowsOf(n, u)
                /\ getLatestStatePerTask(n, u)' = getLatestStatePerTask(n, u)
  BY CommitKeeps
<1> QED
  BY <1>1 DEF Follows, appendTaskStatesToFeatcol, OrUnlocked

LEMMA CommitViews ==
  ASSUME TypeOK, Views, NEW q \in open, commit(q)
  PROVE  Views'
<1> SUFFICES ASSUME NEW b \in Browser PROVE View(b)'
  BY DEF Views
<1>1. store' = store /\ store[b].seen \in 0..Len(rows)
  BY DEF commit, TypeOK, Store
<1>2. PICK n \in 0..Len(rows) : n = store[b].seen
  BY <1>1
<1>3. PICK s, t : s = store[b].selectedTaskState /\ t = store[b].selectedTaskId
  OBVIOUS
<1>4. /\ Follows(s, n, t)' <=> Follows(s, n, t)
      /\ appendTaskStatesToFeatcol(n)' = appendTaskStatesToFeatcol(n)
  BY CommitFollows
<1>5. View(b)
  BY DEF Views
<1> QED
  BY <1>1, <1>2, <1>3, <1>4, <1>5 DEF View

LEMMA CommitClicked ==
  ASSUME TypeOK, Clicked, NEW q \in open, commit(q)
  PROVE  Clicked'
<1> SUFFICES ASSUME NEW p \in open', p.by # NoBrowser
             PROVE  /\ p.seen <= Len(rows')
                    /\ p.event = "MAP" => Follows("UNLOCKED_TO_MAP", p.seen, p.task)'
  BY DEF Clicked
<1>1. p \in open /\ p \in Request
  BY DEF commit, TypeOK
<1>2. p.seen \in 0..Len(rows)
  BY <1>1 DEF Clicked, TypeOK, Request
<1>3. Len(rows') = Len(rows) + 1
  BY CommitKeeps
<1>4. Follows("UNLOCKED_TO_MAP", p.seen, p.task)' <=> Follows("UNLOCKED_TO_MAP", p.seen, p.task)
  BY <1>2, CommitFollows
<1>5. Len(rows) \in Nat
  BY DEF TypeOK
<1> QED
  BY <1>1, <1>2, <1>3, <1>4, <1>5 DEF Clicked

LEMMA SameViews ==
  ASSUME Views, rows' = rows, store' = store
  PROVE  Views'
<1>1. \A n : appendTaskStatesToFeatcol(n)' = appendTaskStatesToFeatcol(n)
  BY DEF appendTaskStatesToFeatcol, getLatestStatePerTask, RowsOf
<1>2. \A s, n, t : Follows(s, n, t)' <=> Follows(s, n, t)
  BY DEF Follows, RowsOf, getLatestStatePerTask
<1>3. ASSUME NEW b \in Browser PROVE View(b)'
  <2>1. View(b)
    BY DEF Views
  <2> QED
    BY <1>1, <1>2, <2>1 DEF View
<1> QED
  BY <1>3 DEF Views

\* Every step that touches no row and no request, and only the store of b.
LEMMA OthersViews ==
  ASSUME Views, Clicked, NEW b \in Browser, \A c \in Browser \ {b} : store'[c] = store[c],
         UNCHANGED <<rows, open, clock>>, View(b)'
  PROVE  Views' /\ Clicked'
<1>1. ASSUME NEW c \in Browser PROVE View(c)'
  <2>1. CASE c = b
    BY <2>1
  <2>2. CASE c # b
    <3>1. View(c) /\ store'[c] = store[c] /\ rows' = rows
      BY <2>2 DEF Views
    <3> QED
      BY <3>1 DEF View, Follows, RowsOf, getLatestStatePerTask, appendTaskStatesToFeatcol
  <2> QED
    BY <2>1, <2>2
<1>2. Clicked'
  BY DEF Clicked, Follows, RowsOf, getLatestStatePerTask
<1> QED
  BY <1>1, <1>2 DEF Views

LEMMA MountViews ==
  ASSUME TypeOK, Views, Clicked, NEW b \in Browser, onMount(b)
  PROVE  Views' /\ Clicked'
<1>1. /\ \A c \in Browser \ {b} : store'[c] = store[c]
      /\ store'[b].mounted /\ store'[b].seen = Len(rows)
      /\ store'[b].selectedTaskId = store[b].selectedTaskId
      /\ store'[b].featcol = appendTaskStatesToFeatcol(Len(rows))
      /\ UNCHANGED <<rows, open, clock>>
  BY MountStore
<1>2. store[b].selectedTaskId = NoTask
  BY DEF onMount, Views, View
<1>3. appendTaskStatesToFeatcol(Len(rows))' = appendTaskStatesToFeatcol(Len(rows))
  BY <1>1 DEF appendTaskStatesToFeatcol, getLatestStatePerTask, RowsOf
<1>4. View(b)'
  BY <1>1, <1>2, <1>3 DEF View
<1> QED
  BY <1>1, <1>4, OthersViews

\* The last row of a task is shown, and an unlocked task where there is none.
LEMMA LatestFollows ==
  ASSUME NEW n, NEW t
  PROVE  Follows(OrUnlocked(getLatestStatePerTask(n, t)), n, t)
BY DEF Follows, getLatestStatePerTask, OrUnlocked

LEMMA SelectViews ==
  ASSUME TypeOK, Views, Clicked, NEW b \in Browser, NEW t \in Task, setSelectedTaskId(b, t)
  PROVE  Views' /\ Clicked'
<1>1. /\ \A c \in Browser \ {b} : store'[c] = store[c]
      /\ store'[b].mounted /\ store'[b].seen = store[b].seen
      /\ store'[b].selectedTaskId = t
      /\ store'[b].selectedTaskState = OrUnlocked(getLatestStatePerTask(store[b].seen, t))
      /\ store'[b].featcol = store[b].featcol
      /\ UNCHANGED <<rows, open, clock>>
  BY SelectStore
<1>2. PICK n : n = store[b].seen
  OBVIOUS
<1>3. Follows(OrUnlocked(getLatestStatePerTask(n, t)), n, t)
  BY LatestFollows
<1>4. store[b].featcol = appendTaskStatesToFeatcol(n)
  BY <1>2 DEF Views, View, setSelectedTaskId
<1>5. /\ appendTaskStatesToFeatcol(n)' = appendTaskStatesToFeatcol(n)
      /\ \A s : Follows(s, n, t)' <=> Follows(s, n, t)
  BY <1>1 DEF appendTaskStatesToFeatcol, Follows, getLatestStatePerTask, RowsOf
<1>6. View(b)'
  BY <1>1, <1>2, <1>3, <1>4, <1>5 DEF View
<1> QED
  BY <1>1, <1>6, OthersViews

LEMMA ReceiveViews ==
  ASSUME TypeOK, Views, Clicked, NEW b \in Browser, NEW n \in 0..Len(rows), receive(b, n)
  PROVE  Views' /\ Clicked'
<1> DEFINE t == store[b].selectedTaskId
           s == IF RowsOf(n, t) = {} THEN store[b].selectedTaskState
                ELSE getLatestStatePerTask(n, t)
<1>1. /\ \A c \in Browser \ {b} : store'[c] = store[c]
      /\ store'[b].mounted /\ store'[b].seen = n
      /\ store'[b].selectedTaskId = t
      /\ store'[b].selectedTaskState = s
      /\ store'[b].featcol = appendTaskStatesToFeatcol(n)
      /\ UNCHANGED <<rows, open, clock>>
  BY ReceiveStore
<1>2. RowsOf(store[b].seen, t) \subseteq RowsOf(n, t)
  <2>1. n \in store[b].seen .. Len(rows)
    BY DEF receive
  <2>2. store[b].seen \in Nat /\ Len(rows) \in Nat
    BY DEF TypeOK, Store
  <2>3. 1..store[b].seen \subseteq 1..n
    BY <2>1, <2>2
  <2> QED
    BY <2>3 DEF RowsOf
<1>3. t # NoTask => Follows(store[b].selectedTaskState, store[b].seen, t)
  BY DEF Views, View
<1>4. t # NoTask => Follows(s, n, t)
  BY <1>2, <1>3 DEF Follows
<1>5. /\ appendTaskStatesToFeatcol(n)' = appendTaskStatesToFeatcol(n)
      /\ \A r, u : Follows(r, n, u)' <=> Follows(r, n, u)
  BY <1>1 DEF appendTaskStatesToFeatcol, Follows, getLatestStatePerTask, RowsOf
<1> HIDE DEF s, t
<1>6. View(b)'
  BY <1>1, <1>4, <1>5 DEF View
<1> QED
  BY <1>1, <1>6, OthersViews

LEMMA SendViews ==
  ASSUME TypeOK, Views, Clicked, NEW t \in Task, NEW e \in TaskEvent,
         NEW b \in Browser \union {NoBrowser}, NEW n \in Nat, send(t, e, b, n),
         b # NoBrowser => /\ n <= Len(rows)
                          /\ e = "MAP" => Follows("UNLOCKED_TO_MAP", n, t)
  PROVE  Views' /\ Clicked'
<1> DEFINE new == [task |-> t, event |-> e, stamp |-> clock', by |-> b, seen |-> n]
<1>1. rows' = rows /\ store' = store /\ open' = open \union {new}
  BY DEF send
<1>2. new.by = b /\ new.seen = n /\ new.event = e /\ new.task = t
  OBVIOUS
<1> HIDE DEF new
<1>3. Views'
  BY <1>1, SameViews
<1>4. \A s, m, u : Follows(s, m, u)' <=> Follows(s, m, u)
  BY <1>1 DEF Follows, RowsOf, getLatestStatePerTask
<1>5. ASSUME NEW q \in open', q.by # NoBrowser
      PROVE  /\ q.seen <= Len(rows')
             /\ q.event = "MAP" => Follows("UNLOCKED_TO_MAP", q.seen, q.task)'
  <2>1. CASE q \in open
    BY <1>1, <1>4, <1>5, <2>1 DEF Clicked
  <2>2. CASE q = new
    BY <1>1, <1>2, <1>4, <1>5, <2>2
  <2> QED
    BY <1>1, <2>1, <2>2
<1> QED
  BY <1>3, <1>5 DEF Clicked

LEMMA ClickViews ==
  ASSUME TypeOK, Views, Clicked, NEW b \in Browser, NEW e \in TaskEvent, click(b, e)
  PROVE  Views' /\ Clicked'
<1>1. /\ store[b].selectedTaskId \in Task
      /\ store[b].seen \in 0..Len(rows)
      /\ send(store[b].selectedTaskId, e, b, store[b].seen)
  BY ClickSends
<1>2. PICK t \in Task, n \in Nat : t = store[b].selectedTaskId /\ n = store[b].seen
  BY <1>1
<1>3. n <= Len(rows)
  BY <1>1, <1>2 DEF TypeOK
<1>4. ASSUME e = "MAP" PROVE Follows("UNLOCKED_TO_MAP", n, t)
  <2>1. store[b].selectedTaskState = "UNLOCKED_TO_MAP"
    BY <1>4 DEF click, offered
  <2>2. Follows(store[b].selectedTaskState, n, t)
    BY <1>2, StoreAssumption DEF Views, View
  <2> QED
    BY <2>1, <2>2
<1> QED
  BY <1>1, <1>2, <1>3, <1>4, SendViews

-----------------------------------------------------------------------------
(* The invariant. *)

LEMMA StoreNumbered ==
  ASSUME Numbered, UNCHANGED <<rows, open, clock>>
  PROVE  Numbered'
BY DEF Numbered

LEMMA Inductive == IInv /\ [Next]_vars => IInv'
<1> SUFFICES ASSUME IInv, [Next]_vars PROVE Numbered' /\ Views' /\ Clicked'
  BY TypeInductive DEF IInv
<1>0. TypeOK /\ Numbered /\ Views /\ Clicked
  BY DEF IInv
<1>1. ASSUME NEW t \in Task, NEW e \in OtherEvent, post_elsewhere(t, e)
      PROVE  Numbered' /\ Views' /\ Clicked'
  <2>1. e \in TaskEvent /\ send(t, e, NoBrowser, 0)
    BY <1>1, StoreAssumption DEF post_elsewhere
  <2>2. Numbered'
    BY <1>0, <2>1, SendNumbered
  <2>3. Views' /\ Clicked'
    BY <1>0, <2>1, SendViews
  <2> QED
    BY <2>2, <2>3
<1>2. ASSUME NEW q \in open, commit(q) PROVE Numbered' /\ Views' /\ Clicked'
  BY <1>0, <1>2, CommitNumbered, CommitViews, CommitClicked
<1>3. ASSUME NEW q \in open, lose(q) PROVE Numbered' /\ Views' /\ Clicked'
  <2>1. rows' = rows /\ clock' = clock /\ store' = store /\ open' \subseteq open
    BY <1>3 DEF lose
  <2>2. Numbered'
    BY <1>0, <2>1 DEF Numbered
  <2>3. Views'
    BY <1>0, <2>1, SameViews
  <2>4. Clicked'
    BY <1>0, <2>1 DEF Clicked, Follows, RowsOf, getLatestStatePerTask
  <2> QED
    BY <2>2, <2>3, <2>4
<1>4. ASSUME NEW b \in Browser, onMount(b) PROVE Numbered' /\ Views' /\ Clicked'
  BY <1>0, <1>4, MountStore, StoreNumbered, MountViews
<1>5. ASSUME NEW b \in Browser, NEW t \in Task, setSelectedTaskId(b, t)
      PROVE  Numbered' /\ Views' /\ Clicked'
  BY <1>0, <1>5, SelectStore, StoreNumbered, SelectViews
<1>6. ASSUME NEW b \in Browser, NEW n \in 0..Len(rows), receive(b, n)
      PROVE  Numbered' /\ Views' /\ Clicked'
  BY <1>0, <1>6, ReceiveStore, StoreNumbered, ReceiveViews
<1>7. ASSUME NEW b \in Browser, NEW e \in TaskEvent, click(b, e)
      PROVE  Numbered' /\ Views' /\ Clicked'
  <2>1. Numbered'
    BY <1>0, <1>7, ClickSends, SendNumbered
  <2> QED
    BY <1>0, <1>7, <2>1, ClickViews
<1>8. CASE UNCHANGED vars
  <2>1. UNCHANGED <<rows, open, clock, store>>
    BY <1>8 DEF vars
  <2>2. Clicked'
    BY <1>0, <2>1 DEF Clicked, Follows, RowsOf, getLatestStatePerTask
  <2> QED
    BY <1>0, <2>1, <2>2, SameViews, StoreNumbered
<1> QED
  BY <1>1, <1>2, <1>3, <1>4, <1>5, <1>6, <1>7, <1>8 DEF Next

LEMMA Initially == Init => IInv
<1> SUFFICES ASSUME Init PROVE Numbered /\ Views /\ Clicked
  BY TypeInitially DEF IInv
<1>1. Len(rows) = 0 /\ open = {}
  BY DEF Init
<1>2. Numbered /\ Clicked
  BY <1>1 DEF Numbered, Clicked
<1>3. Views
  BY DEF Init, Views, View
<1> QED
  BY <1>2, <1>3

LEMMA Invariant == Spec => []IInv
BY Initially, Inductive, PTL DEF Spec

-----------------------------------------------------------------------------
(* What is shown, and what the backend computes. *)

\* Where the last row is no comment and the newest, both read it.
LEMMA PlainIsBoard ==
  ASSUME TypeOK, Numbered, NEW t, Plain(Len(rows), t)
  PROVE  task_state(Log, t) = OrUnlocked(getLatestStatePerTask(Len(rows), t))
         /\ (RowsOf(Len(rows), t) # {} => task_state(Log, t) = getLatestStatePerTask(Len(rows), t))
<1> DEFINE N == Len(rows)
           k == Max(RowsOf(N, t))
<1>0. N \in Nat /\ N \in 0..N
  BY DEF TypeOK
<1>1. \A r \in Log : r.task = t => \E i \in RowsOf(N, t) : r = rows[i]
  BY DEF Log, RowsOf
<1>2. CASE RowsOf(N, t) = {}
  <2>1. StateRows(Log, t) = {}
    BY <1>1, <1>2 DEF StateRows
  <2> QED
    BY <1>2, <2>1 DEF task_state, getLatestStatePerTask, OrUnlocked
<1>3. CASE RowsOf(N, t) # {}
  <2>1. k \in 1..N /\ k \in RowsOf(N, t) /\ rows[k] \in Row /\ rows[k].task = t
    BY <1>0, <1>3, LastRow
  <2>2. rows[k].event # "COMMENT" /\ \A i \in RowsOf(N, t) : rows[i].stamp <= rows[k].stamp
    BY <1>3 DEF Plain
  <2>3. rows[k] \in StateRows(Log, t)
    BY <2>1, <2>2 DEF StateRows, Log
  <2>4. \A r \in StateRows(Log, t) : r.stamp <= rows[k].stamp
    BY <1>1, <2>2 DEF StateRows
  <2>5. IsNewest(rows[k], StateRows(Log, t))
    BY <2>3, <2>4 DEF IsNewest
  <2>6. ASSUME NEW r, IsNewest(r, StateRows(Log, t)) PROVE r = rows[k]
    <3>1. r \in StateRows(Log, t) /\ rows[k].stamp <= r.stamp
      BY <2>3, <2>6 DEF IsNewest
    <3>2. PICK i \in RowsOf(N, t) : r = rows[i]
      BY <1>1, <3>1 DEF StateRows
    <3>3. i \in 1..N /\ rows[i] \in Row
      BY DEF RowsOf, TypeOK
    <3>4. rows[i].stamp = rows[k].stamp
      BY <2>1, <2>2, <3>1, <3>2, <3>3 DEF Row
    <3> QED
      BY <2>1, <3>2, <3>3, <3>4 DEF Numbered
  <2>7. Newest(StateRows(Log, t)) = rows[k]
    BY <2>5, <2>6 DEF Newest
  <2>8. task_state(Log, t) = rows[k].state /\ getLatestStatePerTask(N, t) = rows[k].state
    BY <1>3, <2>3, <2>7 DEF task_state, getLatestStatePerTask
  <2>9. rows[k].state # NoState
    <3>1. rows[k].state = set_task_state[rows[k].event] /\ rows[k].event \in TaskEvent
      BY <2>1 DEF Numbered, Row
    <3> QED
      BY <2>2, <3>1 DEF set_task_state, TaskEvent, NoState
  <2> QED
    BY <1>3, <2>8, <2>9 DEF OrUnlocked
<1> QED
  BY <1>2, <1>3

\* A browser that has received everything shows what the backend computes, unless a comment
\* came last or two transactions committed out of order.
THEOREM ShownIsBoardHolds == Spec => []ShownIsBoard
<1>1. ASSUME IInv PROVE ShownIsBoard
  <2>0. TypeOK /\ Numbered /\ Views
    BY <1>1 DEF IInv
  <2> SUFFICES ASSUME NEW b \in Browser, NEW t \in Task, store[b].mounted,
                      store[b].seen = Len(rows), Plain(Len(rows), t)
               PROVE  /\ store[b].featcol[t] = task_state(Log, t)
                      /\ store[b].selectedTaskId = t =>
                           store[b].selectedTaskState = task_state(Log, t)
    BY DEF ShownIsBoard
  <2>1. View(b)
    BY <2>0 DEF Views
  <2>2. /\ task_state(Log, t) = OrUnlocked(getLatestStatePerTask(Len(rows), t))
        /\ RowsOf(Len(rows), t) # {} =>
             task_state(Log, t) = getLatestStatePerTask(Len(rows), t)
    BY <2>0, PlainIsBoard
  <2>3. store[b].featcol[t] = task_state(Log, t)
    BY <2>1, <2>2 DEF View, appendTaskStatesToFeatcol
  <2>4. ASSUME store[b].selectedTaskId = t
        PROVE  store[b].selectedTaskState = task_state(Log, t)
    <3>1. Follows(store[b].selectedTaskState, Len(rows), t)
      BY <2>1, <2>4, StoreAssumption DEF View
    <3> QED
      BY <2>2, <3>1 DEF Follows, getLatestStatePerTask, OrUnlocked
  <2> QED
    BY <2>3, <2>4
<1> QED
  BY <1>1, Invariant, PTL

\* A MAP clicked on a plain view that is still up to date never takes over a task that is
\* locked for mapping.
THEOREM TakeoverOnlyBlindHolds == Spec => TakeoverOnlyBlind
<1> DEFINE Blind(q) ==
             /\ commit(q) /\ q.event = "MAP" /\ q.by # NoBrowser
             /\ RowsOf(Len(rows), q.task) = RowsOf(q.seen, q.task)
             /\ Plain(q.seen, q.task)
             => task_state(Log, q.task) # "LOCKED_FOR_MAPPING"
           Step == \A q \in open : Blind(q)
<1>1. ASSUME IInv PROVE Step
  <2> SUFFICES ASSUME NEW q \in open, q.event = "MAP", q.by # NoBrowser,
                      RowsOf(Len(rows), q.task) = RowsOf(q.seen, q.task),
                      Plain(q.seen, q.task)
               PROVE  task_state(Log, q.task) # "LOCKED_FOR_MAPPING"
    OBVIOUS
  <2>0. TypeOK /\ Numbered /\ Clicked
    BY <1>1 DEF IInv
  <2>1. Follows("UNLOCKED_TO_MAP", Len(rows), q.task)
    BY <2>0 DEF Clicked, Follows, getLatestStatePerTask
  <2>2. Plain(Len(rows), q.task)
    BY DEF Plain
  <2>3. task_state(Log, q.task) = OrUnlocked(getLatestStatePerTask(Len(rows), q.task))
    BY <2>0, <2>2, PlainIsBoard
  <2> QED
    BY <2>1, <2>3 DEF Follows, getLatestStatePerTask, OrUnlocked
<1>2. IInv /\ [Next]_vars => [Step]_vars
  BY <1>1
<1> QED
  BY <1>2, Invariant, PTL DEF Spec, TakeoverOnlyBlind

-----------------------------------------------------------------------------
(* The pages of the organisations. *)

(* What the reducers return is a slice. *)

LEMMA SliceTypes ==
  ASSUME NEW s \in Slice, NEW r
  PROVE  /\ [s EXCEPT !.organisationDataLoading = TRUE] \in Slice
         /\ redirected(r, s) \in Slice
         /\ GetIndividualOrganization(s) \in Slice
         /\ cleared(s) \in Slice
         /\ Emptied(s) \in Slice
<1>1. [s EXCEPT !.organisationDataLoading = TRUE] \in Slice
  BY DEF Slice
<1>2. redirected(r, s) \in Slice
  BY DEF redirected, Slice
<1>3. GetIndividualOrganization(s) \in Slice /\ Emptied(s) \in Slice
  BY DEF GetIndividualOrganization, Emptied, Slice
<1>4. cleared(s) \in Slice
  BY DEF cleared, Slice
<1> QED
  BY <1>1, <1>2, <1>3, <1>4

LEMMA MountListTypes ==
  ASSUME OrgPagesTypeOK, NEW s \in Slice, NEW as \in SUBSET OrgRequest, MountList(s, as),
         UNCHANGED <<role, manages>>
  PROVE  OrgPagesTypeOK'
<1>1. /\ Asking("approved", NoOrg) \in OrgRequest /\ ListOf \in Route
      /\ number + 1 \in Nat /\ number \in Nat
  BY DEF Asking, OrgRequest, Kind, OrgPagesTypeOK, ListOf, Route
<1>2. /\ verifiedTab' \in BOOLEAN /\ myOrgsLoaded' \in BOOLEAN
      /\ disturbed' \in BOOLEAN /\ typed' \in BOOLEAN /\ consent' \in BOOLEAN
  BY Zenon DEF MountList
<1>3. /\ route' = ListOf /\ organisation' = [s EXCEPT !.organisationDataLoading = TRUE]
      /\ asked' = as \union {Asking("approved", NoOrg)}
      /\ activeTab' = 0 /\ number' = number + 1 /\ opened' = number
  BY Zenon DEF MountList
<1>4. /\ route' \in Route /\ organisation' \in Slice /\ asked' \subseteq OrgRequest
      /\ activeTab' \in {0, 1} /\ number' \in Nat /\ opened' \in Nat
  BY <1>1, <1>3, SliceTypes
<1>5. role' \in {"ADMIN", "MAPPER"} /\ manages' \subseteq Org
  BY DEF OrgPagesTypeOK
<1> QED
  BY <1>2, <1>4, <1>5 DEF OrgPagesTypeOK

LEMMA ShowTypes ==
  ASSUME OrgPagesTypeOK, NEW s \in Slice, NEW as \in SUBSET OrgRequest, Show(route, s, as),
         UNCHANGED <<role, manages>>,
         ~Leaves(route, s) => /\ consent' \in BOOLEAN /\ typed' \in BOOLEAN
                              /\ opened' \in Nat /\ disturbed' \in BOOLEAN
  PROVE  OrgPagesTypeOK'
<1>1. CASE Leaves(route, s)
  BY <1>1, SliceTypes, MountListTypes DEF Show
<1>2. CASE ~Leaves(route, s)
  BY <1>2 DEF Show, OrgPagesTypeOK
<1> QED
  BY <1>1, <1>2

LEMMA MountFormTypes ==
  ASSUME OrgPagesTypeOK, NEW r \in Route, MountForm(r), UNCHANGED <<role, manages>>
  PROVE  OrgPagesTypeOK'
<1> DEFINE details == r.page \in {"edit", "approve"}
           s == IF details THEN GetIndividualOrganization(organisation) ELSE organisation
           shown == IF r.page = "approve" THEN s ELSE cleared(s)
           as == IF details THEN asked \union {Asking("details", r.org)} ELSE asked
           loading == [redirected(r, shown) EXCEPT !.organisationDataLoading = TRUE]
           approved == [n |-> number + 2, kind |-> "approved", org |-> NoOrg]
<1>1. organisation \in Slice /\ number \in Nat /\ asked \subseteq OrgRequest
  BY DEF OrgPagesTypeOK
<1>2. shown \in Slice
  BY <1>1, SliceTypes
<1>3. loading \in Slice
  BY <1>2, SliceTypes
<1>4. as \subseteq OrgRequest
  BY <1>1 DEF Asking, OrgRequest, Kind, Route
<1>5. approved \in OrgRequest /\ ListOf \in Route
  BY <1>1 DEF OrgRequest, Kind, ListOf, Route
<1>6. disturbed' \in BOOLEAN /\ typed' \in BOOLEAN /\ consent' \in BOOLEAN
  BY Zenon DEF MountForm
<1>9. role' \in {"ADMIN", "MAPPER"} /\ manages' \subseteq Org
  BY DEF OrgPagesTypeOK
<1> HIDE DEF shown, as, loading, approved
<1>7. CASE Leaves(r, [s EXCEPT !.consentApproval = FALSE])
  <2>1. /\ route' = ListOf /\ organisation' = loading /\ asked' = as \union {approved}
    BY <1>7, Zenon DEF MountForm, shown, as, loading, approved
  <2>2. /\ route' \in Route /\ organisation' \in Slice /\ asked' \subseteq OrgRequest
    BY <1>3, <1>4, <1>5, <2>1
  <2>4. number' \in Nat /\ opened' \in Nat
    BY <1>1, <1>7 DEF MountForm
  <2>3. verifiedTab' \in BOOLEAN /\ myOrgsLoaded' \in BOOLEAN /\ activeTab' \in {0, 1}
    BY <1>7, <2>1, Zenon DEF MountForm, shown, as, loading, approved
  <2> QED
    BY <1>6, <1>9, <2>2, <2>3, <2>4 DEF OrgPagesTypeOK
<1>8. CASE ~Leaves(r, [s EXCEPT !.consentApproval = FALSE])
  <2>1. /\ route' = r /\ organisation' = shown /\ asked' = as
    BY <1>8, Zenon DEF MountForm, shown, as, loading, approved
  <2>2. /\ route' \in Route /\ organisation' \in Slice /\ asked' \subseteq OrgRequest
    BY <1>2, <1>4, <2>1
  <2>4. number' \in Nat /\ opened' \in Nat
    BY <1>1, <1>8 DEF MountForm
  <2>3. verifiedTab' \in BOOLEAN /\ myOrgsLoaded' \in BOOLEAN /\ activeTab' \in {0, 1}
    BY <1>8, Zenon DEF MountForm, shown, as, loading, approved, OrgPagesTypeOK
  <2> QED
    BY <1>6, <1>9, <2>2, <2>3, <2>4 DEF OrgPagesTypeOK
<1> QED
  BY <1>7, <1>8

LEMMA OrgTypeStep ==
  ASSUME OrgPagesTypeOK, [OrgPagesNext]_orgPageVars
  PROVE  OrgPagesTypeOK'
<1> USE DEF OrgPagesTypeOK
<1>0. organisation \in Slice /\ asked \subseteq OrgRequest /\ number \in Nat /\ route \in Route
  OBVIOUS
<1>a. /\ \A k \in Kind, o \in Org \union {NoOrg} : Asking(k, o) \in OrgRequest
      /\ number + 1 \in Nat /\ route.org \in Org \union {NoOrg} /\ NoOrg \in Org \union {NoOrg}
      /\ \A a : Rest(a) \subseteq OrgRequest
  BY <1>0 DEF Asking, OrgRequest, Route, Rest
<1>b. {"approved", "unapproved", "mine", "details", "create", "update", "approve", "reject"}
        \subseteq Kind
  BY DEF Kind
<1>1. CASE UNCHANGED orgPageVars
  BY <1>1 DEF orgPageVars
<1>2. ASSUME NEW r \in Route, open_page(r) PROVE OrgPagesTypeOK'
  <2>1. UNCHANGED <<role, manages>> /\ (MountList(organisation, asked) \/ MountForm(r))
    BY <1>2 DEF open_page
  <2> QED
    BY <1>0, <2>1, MountListTypes, MountFormTypes
<1>3. ASSUME NEW v \in BOOLEAN, setVerifiedTab(v) PROVE OrgPagesTypeOK'
  <2>1. [organisation EXCEPT !.organisationDataLoading = TRUE] \in Slice
    BY <1>0, SliceTypes
  <2>2. organisation' \in Slice
    BY <1>3, <2>1 DEF setVerifiedTab
  <2>3. asked' \subseteq OrgRequest
    BY <1>3, <1>a, <1>b DEF setVerifiedTab
  <2>4. number' \in Nat
    BY <1>3 DEF setVerifiedTab
  <2>5. verifiedTab' \in BOOLEAN
    BY <1>3, Zenon DEF setVerifiedTab
  <2> QED
    BY <1>3, <2>2, <2>3, <2>4, <2>5, Zenon DEF setVerifiedTab
<1>4. ASSUME loadMyOrganisations PROVE OrgPagesTypeOK'
  <2>1. [organisation EXCEPT !.myOrganisationDataLoading = TRUE] \in Slice
    BY <1>0 DEF Slice
  <2>2. organisation' \in Slice
    BY <1>4, <2>1 DEF loadMyOrganisations
  <2>3. asked' \subseteq OrgRequest
    BY <1>4, <1>a, <1>b DEF loadMyOrganisations
  <2>4. number' \in Nat
    BY <1>4 DEF loadMyOrganisations
  <2>5. myOrgsLoaded' \in BOOLEAN /\ activeTab' \in {0, 1}
    BY <1>4 DEF loadMyOrganisations
  <2> QED
    BY <1>4, <2>2, <2>3, <2>4, <2>5, Zenon DEF loadMyOrganisations
<1>5. CASE showAll
  BY <1>5 DEF showAll
<1>6. CASE give_consent
  BY <1>6, Zenon DEF give_consent
<1>7. ASSUME submit_consent PROVE OrgPagesTypeOK'
  <2> DEFINE s == [organisation EXCEPT !.consentApproval = TRUE, !.consentDetails = TRUE]
  <2>1. s \in Slice
    BY <1>0 DEF Slice
  <2>2. Show(route, s, asked) /\ UNCHANGED <<role, manages>>
    BY <1>7 DEF submit_consent
  <2>3. ~Leaves(route, s) => consent' = FALSE /\ UNCHANGED <<typed, opened, disturbed>>
    BY <1>7, Zenon DEF submit_consent
  <2>4. ~Leaves(route, s) => /\ consent' \in BOOLEAN /\ typed' \in BOOLEAN
                             /\ opened' \in Nat /\ disturbed' \in BOOLEAN
    BY <2>3, Zenon
  <2> HIDE DEF s
  <2> QED
    BY <1>0, <2>1, <2>2, <2>4, ShowTypes, Zenon
<1>8. ASSUME Back PROVE OrgPagesTypeOK'
  <2>1. organisation' \in Slice
    BY <1>0, <1>8 DEF Back, Slice
  <2>2. typed' \in BOOLEAN /\ consent' \in BOOLEAN
    BY <1>8, Zenon DEF Back
  <2> QED
    BY <1>8, <2>1, <2>2, Zenon DEF Back
<1>9. CASE type_details
  BY <1>9, Zenon DEF type_details
<1>10. ASSUME submission PROVE OrgPagesTypeOK'
  <2>1. organisation' \in Slice
    BY <1>0, <1>10 DEF submission, Slice
  <2>2. asked' \subseteq OrgRequest
    BY <1>10, <1>a, <1>b DEF submission
  <2>3. number' \in Nat
    BY <1>10 DEF submission
  <2>4. typed' \in BOOLEAN
    BY <1>10, Zenon DEF submission
  <2> QED
    BY <1>10, <2>1, <2>2, <2>3, <2>4, Zenon DEF submission
<1>11. ASSUME approveOrganization PROVE OrgPagesTypeOK'
  <2>1. organisation' \in Slice
    BY <1>0, <1>11 DEF approveOrganization, Slice
  <2>2. asked' \subseteq OrgRequest
    BY <1>11, <1>a, <1>b DEF approveOrganization
  <2>3. number' \in Nat
    BY <1>11 DEF approveOrganization
  <2> QED
    BY <1>11, <2>1, <2>2, <2>3, Zenon DEF approveOrganization
<1>12. ASSUME rejectOrganization PROVE OrgPagesTypeOK'
  <2>1. organisation' \in Slice
    BY <1>0, <1>12 DEF rejectOrganization, Slice
  <2>2. asked' \subseteq OrgRequest
    BY <1>12, <1>a, <1>b DEF rejectOrganization
  <2>3. number' \in Nat
    BY <1>12 DEF rejectOrganization
  <2> QED
    BY <1>12, <2>1, <2>2, <2>3, Zenon DEF rejectOrganization
<1>13. ASSUME NEW a \in asked, NEW ok \in BOOLEAN, answered_by(a, ok) PROVE OrgPagesTypeOK'
  <2>0. a \in OrgRequest /\ Rest(a) \subseteq OrgRequest
    BY <1>0, <1>a
  <2>1. ASSUME OrganisationDataService(a, ok) PROVE OrgPagesTypeOK'
    <3>1. organisation' \in Slice
      BY <1>0, <2>1 DEF OrganisationDataService, Slice
    <3> QED
      BY <2>0, <2>1, <3>1, Zenon DEF OrganisationDataService
  <2>2. ASSUME MyOrganisationDataService(a, ok) PROVE OrgPagesTypeOK'
    <3>1. organisation' \in Slice
      BY <1>0, <2>2 DEF MyOrganisationDataService, Slice
    <3> QED
      BY <2>0, <2>2, <3>1, Zenon DEF MyOrganisationDataService
  <2>3. ASSUME SetIndividualOrganization(a, ok) PROVE OrgPagesTypeOK'
    <3>1. organisation' \in Slice
      BY <1>0, <2>0, <2>3 DEF SetIndividualOrganization, Slice, OrgRequest
    <3>2. typed' \in BOOLEAN /\ disturbed' \in BOOLEAN
      BY <2>3, Zenon DEF SetIndividualOrganization
    <3> QED
      BY <2>0, <2>3, <3>1, <3>2, Zenon DEF SetIndividualOrganization
  <2>4. ASSUME PostOrganisationDataService(a, ok) PROVE OrgPagesTypeOK'
    <3> DEFINE s == [organisation EXCEPT !.postOrganisationDataLoading = FALSE]
               t == IF ok THEN Emptied([s EXCEPT !.postOrganisationData = TRUE]) ELSE s
    <3>1. s \in Slice /\ [s EXCEPT !.postOrganisationData = TRUE] \in Slice
      BY <1>0 DEF Slice
    <3>2. t \in Slice
      BY <3>1, SliceTypes
    <3>3. Show(route, t, Rest(a)) /\ UNCHANGED <<role, manages>>
      BY <2>4, Zenon DEF PostOrganisationDataService
    <3>4. ~Leaves(route, t) => /\ consent' \in BOOLEAN /\ typed' \in BOOLEAN
                               /\ opened' \in Nat /\ disturbed' \in BOOLEAN
      BY <2>4, Zenon DEF PostOrganisationDataService
    <3> HIDE DEF t
    <3> QED
      BY <2>0, <3>2, <3>3, <3>4, ShowTypes, Zenon
  <2>5. ASSUME ApproveOrganizationService(a, ok) PROVE OrgPagesTypeOK'
    <3> DEFINE s == IF a.kind = "approve"
                    THEN [organisation EXCEPT !.organizationApproving = FALSE]
                    ELSE [organisation EXCEPT !.organizationRejecting = FALSE]
               t == IF ok THEN Emptied([s EXCEPT !.isSuccess = TRUE]) ELSE s
    <3>1. s \in Slice
      BY <1>0 DEF Slice
    <3> HIDE DEF s
    <3>2. [s EXCEPT !.isSuccess = TRUE] \in Slice
      BY <3>1 DEF Slice
    <3>3. t \in Slice
      BY <3>1, <3>2, SliceTypes
    <3>4. Show(route, t, Rest(a)) /\ UNCHANGED <<role, manages>>
      BY <2>5, Zenon DEF ApproveOrganizationService, s
    <3>5. ~Leaves(route, t) => /\ consent' \in BOOLEAN /\ typed' \in BOOLEAN
                               /\ opened' \in Nat /\ disturbed' \in BOOLEAN
      BY <2>5, Zenon DEF ApproveOrganizationService, s
    <3> HIDE DEF t
    <3> QED
      BY <2>0, <3>3, <3>4, <3>5, ShowTypes, Zenon
  <2> QED
    BY <1>13, <2>1, <2>2, <2>3, <2>4, <2>5 DEF answered_by
<1> HIDE DEF OrgPagesTypeOK
<1> QED
  BY <1>1, <1>2, <1>3, <1>4, <1>5, <1>6, <1>7, <1>8, <1>9, <1>10, <1>11, <1>12, <1>13
  DEF OrgPagesNext

-----------------------------------------------------------------------------
(* OneDecision: the flags of the slice tell which requests are under way. *)

Alone(as, s) ==
  /\ \A a, b \in as : {a.kind, b.kind} \subseteq {"approve", "reject"} => a = b
  /\ \A a, b \in as : {a.kind, b.kind} \subseteq {"create", "update"} => a = b
  /\ \A a \in as : /\ a.kind = "approve" => s.organizationApproving
                   /\ a.kind = "reject" => s.organizationRejecting
                   /\ a.kind \in {"create", "update"} => s.postOrganisationDataLoading

\* The kinds of request that these flags are not about.
PlainFlags == {"approved", "unapproved", "mine", "details"}

SameFlags(s, t) ==
  /\ s.organizationApproving = t.organizationApproving
  /\ s.organizationRejecting = t.organizationRejecting
  /\ s.postOrganisationDataLoading = t.postOrganisationDataLoading

LEMMA PlainAlone ==
  ASSUME NEW as, NEW bs, NEW s, NEW t, Alone(as, s), SameFlags(s, t),
         \A b \in bs : b \in as \/ b.kind \in PlainFlags
  PROVE  Alone(bs, t)
<1>1. \A a, b \in bs : {a.kind, b.kind} \subseteq {"approve", "reject"} => a = b
  BY DEF Alone, PlainFlags
<1>2. \A a, b \in bs : {a.kind, b.kind} \subseteq {"create", "update"} => a = b
  BY DEF Alone, PlainFlags
<1>3. ASSUME NEW a \in bs
      PROVE  /\ a.kind = "approve" => t.organizationApproving
             /\ a.kind = "reject" => t.organizationRejecting
             /\ a.kind \in {"create", "update"} => t.postOrganisationDataLoading
  BY <1>3 DEF Alone, SameFlags, PlainFlags
<1> QED
  BY <1>1, <1>2, <1>3 DEF Alone

LEMMA FlagsKept ==
  ASSUME NEW s \in Slice, NEW r
  PROVE  /\ SameFlags(s, s)
         /\ SameFlags(s, [s EXCEPT !.organisationDataLoading = TRUE])
         /\ SameFlags(s, redirected(r, s))
         /\ SameFlags(s, GetIndividualOrganization(s))
         /\ SameFlags(s, cleared(s))
         /\ SameFlags(s, Emptied(s))
BY DEF SameFlags, Slice, redirected, GetIndividualOrganization, cleared, Emptied

LEMMA MountListAlone ==
  ASSUME NEW s \in Slice, NEW as, Alone(as, s), MountList(s, as)
  PROVE  Alone(asked', organisation')
<1>1. /\ organisation' = [s EXCEPT !.organisationDataLoading = TRUE]
      /\ asked' = as \union {Asking("approved", NoOrg)}
  BY Zenon DEF MountList
<1>2. SameFlags(s, organisation')
  BY <1>1, FlagsKept
<1>3. \A b \in asked' : b \in as \/ b.kind \in PlainFlags
  <2>1. Asking("approved", NoOrg).kind \in PlainFlags
    BY DEF Asking, PlainFlags
  <2> QED
    BY <1>1, <2>1
<1> QED
  BY <1>2, <1>3, PlainAlone

LEMMA ShowAlone ==
  ASSUME NEW s \in Slice, NEW as, Alone(as, s), Show(route, s, as)
  PROVE  Alone(asked', organisation')
<1>1. CASE Leaves(route, s)
  <2>1. redirected(route, s) \in Slice /\ SameFlags(s, redirected(route, s))
    BY SliceTypes, FlagsKept
  <2>2. Alone(as, redirected(route, s))
    BY <2>1, PlainAlone
  <2> QED
    BY <1>1, <2>1, <2>2, MountListAlone DEF Show
<1>2. CASE ~Leaves(route, s)
  BY <1>2 DEF Show
<1> QED
  BY <1>1, <1>2

LEMMA MountFormAlone ==
  ASSUME OrgPagesTypeOK, NEW r \in Route, MountForm(r), Alone(asked, organisation)
  PROVE  Alone(asked', organisation')
<1> DEFINE details == r.page \in {"edit", "approve"}
           s == IF details THEN GetIndividualOrganization(organisation) ELSE organisation
           shown == IF r.page = "approve" THEN s ELSE cleared(s)
           as == IF details THEN asked \union {Asking("details", r.org)} ELSE asked
           loading == [redirected(r, shown) EXCEPT !.organisationDataLoading = TRUE]
           approved == [n |-> number + 2, kind |-> "approved", org |-> NoOrg]
<1>1. organisation \in Slice
  BY DEF OrgPagesTypeOK
<1>2. shown \in Slice /\ SameFlags(organisation, shown)
  <2>1. s \in Slice /\ SameFlags(organisation, s)
    BY <1>1, SliceTypes, FlagsKept
  <2>2. cleared(s) \in Slice /\ SameFlags(s, cleared(s))
    BY <2>1, SliceTypes, FlagsKept
  <2> QED
    BY <2>1, <2>2 DEF SameFlags
<1>3. SameFlags(organisation, loading)
  <2>1. redirected(r, shown) \in Slice /\ SameFlags(shown, redirected(r, shown))
    BY <1>2, SliceTypes, FlagsKept
  <2>2. SameFlags(redirected(r, shown), loading)
    BY <2>1, FlagsKept
  <2> QED
    BY <1>2, <2>1, <2>2 DEF SameFlags
<1>4. /\ \A b \in as : b \in asked \/ b.kind \in PlainFlags
      /\ \A b \in as \union {approved} : b \in asked \/ b.kind \in PlainFlags
  BY DEF Asking, PlainFlags
<1> HIDE DEF s, shown, as, loading, approved
<1>5. \/ organisation' = loading /\ asked' = as \union {approved}
      \/ organisation' = shown /\ asked' = as
  <2>1. CASE Leaves(r, [s EXCEPT !.consentApproval = FALSE])
    BY <2>1, Zenon DEF MountForm, s, shown, as, loading, approved
  <2>2. CASE ~Leaves(r, [s EXCEPT !.consentApproval = FALSE])
    BY <2>2, Zenon DEF MountForm, s, shown, as, loading, approved
  <2> QED
    BY <2>1, <2>2
<1> QED
  BY <1>2, <1>3, <1>4, <1>5, PlainAlone

LEMMA AloneStep ==
  ASSUME OrgPagesTypeOK, Alone(asked, organisation), [OrgPagesNext]_orgPageVars
  PROVE  Alone(asked', organisation')
<1>0. organisation \in Slice /\ asked \subseteq OrgRequest
  BY DEF OrgPagesTypeOK
<1>a. \A k, o : Asking(k, o).kind = k
  BY DEF Asking
<1>b. ASSUME SameFlags(organisation, organisation'),
             \A b \in asked' : b \in asked \/ b.kind \in PlainFlags
      PROVE  Alone(asked', organisation')
  BY <1>b, PlainAlone
<1>c. SameFlags(organisation, organisation)
  BY DEF SameFlags
<1>1. CASE UNCHANGED orgPageVars
  BY <1>1, Zenon DEF orgPageVars
<1>2. ASSUME NEW r \in Route, open_page(r) PROVE Alone(asked', organisation')
  <2>1. MountList(organisation, asked) \/ MountForm(r)
    BY <1>2 DEF open_page
  <2> QED
    BY <1>0, <2>1, MountListAlone, MountFormAlone
<1>3. ASSUME NEW v \in BOOLEAN, setVerifiedTab(v) PROVE Alone(asked', organisation')
  <2>1. SameFlags(organisation, organisation')
    BY <1>0, <1>3, FlagsKept DEF setVerifiedTab
  <2>2. \A b \in asked' : b \in asked \/ b.kind \in PlainFlags
    BY <1>3, <1>a DEF setVerifiedTab, PlainFlags
  <2> QED
    BY <1>b, <2>1, <2>2
<1>4. ASSUME loadMyOrganisations PROVE Alone(asked', organisation')
  <2>1. SameFlags(organisation, organisation')
    BY <1>0, <1>4, <1>c DEF loadMyOrganisations, SameFlags, Slice
  <2>2. \A b \in asked' : b \in asked \/ b.kind \in PlainFlags
    BY <1>4, <1>a DEF loadMyOrganisations, PlainFlags
  <2> QED
    BY <1>b, <2>1, <2>2
<1>5. CASE showAll \/ give_consent \/ type_details
  BY <1>5, Zenon DEF showAll, give_consent, type_details
<1>6. ASSUME submit_consent PROVE Alone(asked', organisation')
  <2> DEFINE s == [organisation EXCEPT !.consentApproval = TRUE, !.consentDetails = TRUE]
  <2>1. s \in Slice /\ SameFlags(organisation, s)
    BY <1>0 DEF Slice, SameFlags
  <2>2. Show(route, s, asked)
    BY <1>6 DEF submit_consent
  <2> HIDE DEF s
  <2>3. Alone(asked, s)
    BY <2>1, PlainAlone
  <2> QED
    BY <2>1, <2>2, <2>3, ShowAlone
<1>7. ASSUME Back PROVE Alone(asked', organisation')
  BY <1>0, <1>7, <1>b DEF Back, SameFlags, Slice
<1>8. ASSUME submission PROVE Alone(asked', organisation')
  <2>1. PICK q : q.kind \in {"create", "update"} /\ asked' = asked \union {q}
    BY <1>8, <1>a DEF submission
  <2>2. /\ organisation'.postOrganisationDataLoading
        /\ organisation'.organizationApproving = organisation.organizationApproving
        /\ organisation'.organizationRejecting = organisation.organizationRejecting
        /\ ~organisation.postOrganisationDataLoading
    BY <1>0, <1>8 DEF submission, may_post, Slice
  <2>3. \A a \in asked : a.kind \notin {"create", "update"}
    BY <2>2 DEF Alone
  <2> QED
    BY <2>1, <2>2, <2>3 DEF Alone
<1>9. ASSUME approveOrganization PROVE Alone(asked', organisation')
  <2>1. PICK q : q.kind = "approve" /\ asked' = asked \union {q}
    BY <1>9, <1>a DEF approveOrganization
  <2>2. /\ organisation'.organizationApproving
        /\ organisation'.organizationRejecting = organisation.organizationRejecting
        /\ organisation'.postOrganisationDataLoading = organisation.postOrganisationDataLoading
        /\ ~organisation.organizationApproving /\ ~organisation.organizationRejecting
    BY <1>0, <1>9 DEF approveOrganization, may_decide, Slice
  <2>3. \A a \in asked : a.kind \notin {"approve", "reject"}
    BY <2>2 DEF Alone
  <2> QED
    BY <2>1, <2>2, <2>3 DEF Alone
<1>10. ASSUME rejectOrganization PROVE Alone(asked', organisation')
  <2>1. PICK q : q.kind = "reject" /\ asked' = asked \union {q}
    BY <1>10, <1>a DEF rejectOrganization
  <2>2. /\ organisation'.organizationRejecting
        /\ organisation'.organizationApproving = organisation.organizationApproving
        /\ organisation'.postOrganisationDataLoading = organisation.postOrganisationDataLoading
        /\ ~organisation.organizationApproving /\ ~organisation.organizationRejecting
    BY <1>0, <1>10 DEF rejectOrganization, may_decide, Slice
  <2>3. \A a \in asked : a.kind \notin {"approve", "reject"}
    BY <2>2 DEF Alone
  <2> QED
    BY <2>1, <2>2, <2>3 DEF Alone
<1>11. ASSUME NEW a \in asked, NEW ok \in BOOLEAN, answered_by(a, ok)
       PROVE  Alone(asked', organisation')
  <2>0. Rest(a) \subseteq asked /\ a \notin Rest(a) /\ a \in OrgRequest
    BY <1>0 DEF Rest
  <2>1. ASSUME OrganisationDataService(a, ok) PROVE Alone(asked', organisation')
    <3>1. SameFlags(organisation, organisation')
      BY <1>0, <2>1 DEF OrganisationDataService, SameFlags, Slice
    <3> QED
      BY <1>b, <2>0, <2>1, <3>1 DEF OrganisationDataService
  <2>2. ASSUME MyOrganisationDataService(a, ok) PROVE Alone(asked', organisation')
    <3>1. SameFlags(organisation, organisation')
      BY <1>0, <2>2 DEF MyOrganisationDataService, SameFlags, Slice
    <3> QED
      BY <1>b, <2>0, <2>2, <3>1 DEF MyOrganisationDataService
  <2>3. ASSUME SetIndividualOrganization(a, ok) PROVE Alone(asked', organisation')
    <3>1. SameFlags(organisation, organisation')
      BY <1>0, <1>c, <2>3 DEF SetIndividualOrganization, SameFlags, Slice
    <3> QED
      BY <1>b, <2>0, <2>3, <3>1 DEF SetIndividualOrganization
  <2>4. ASSUME PostOrganisationDataService(a, ok) PROVE Alone(asked', organisation')
    <3> DEFINE s == [organisation EXCEPT !.postOrganisationDataLoading = FALSE]
               t == IF ok THEN Emptied([s EXCEPT !.postOrganisationData = TRUE]) ELSE s
    <3>1. /\ s \in Slice /\ s.organizationApproving = organisation.organizationApproving
          /\ s.organizationRejecting = organisation.organizationRejecting
      BY <1>0 DEF Slice
    <3>2. \A b \in Rest(a) : b.kind \notin {"create", "update"}
      BY <2>0, <2>4 DEF Alone, PostOrganisationDataService
    <3>3. Alone(Rest(a), s)
      BY <2>0, <3>1, <3>2 DEF Alone
    <3>4. Show(route, t, Rest(a))
      BY <2>4, Zenon DEF PostOrganisationDataService
    <3> HIDE DEF s
    <3>5. t \in Slice /\ SameFlags(s, t)
      <4>1. /\ [s EXCEPT !.postOrganisationData = TRUE] \in Slice
            /\ SameFlags(s, [s EXCEPT !.postOrganisationData = TRUE])
        BY <3>1 DEF Slice, SameFlags
      <4> HIDE DEF t
      <4>2. /\ Emptied([s EXCEPT !.postOrganisationData = TRUE]) \in Slice
            /\ SameFlags(s, Emptied([s EXCEPT !.postOrganisationData = TRUE]))
        BY <4>1, SliceTypes, FlagsKept DEF SameFlags
      <4> QED
        BY <3>1, <4>2, FlagsKept DEF t
    <3> HIDE DEF t
    <3>6. Alone(Rest(a), t)
      BY <3>3, <3>5, PlainAlone
    <3> QED
      BY <3>4, <3>5, <3>6, ShowAlone
  <2>5. ASSUME ApproveOrganizationService(a, ok) PROVE Alone(asked', organisation')
    <3> DEFINE s == IF a.kind = "approve"
                    THEN [organisation EXCEPT !.organizationApproving = FALSE]
                    ELSE [organisation EXCEPT !.organizationRejecting = FALSE]
               t == IF ok THEN Emptied([s EXCEPT !.isSuccess = TRUE]) ELSE s
    <3>1. /\ s \in Slice
          /\ s.postOrganisationDataLoading = organisation.postOrganisationDataLoading
      BY <1>0 DEF Slice
    <3>2. \A b \in Rest(a) : b.kind \notin {"approve", "reject"}
      BY <2>0, <2>5 DEF Alone, ApproveOrganizationService
    <3>4. Show(route, t, Rest(a))
      BY <2>5, Zenon DEF ApproveOrganizationService
    <3> HIDE DEF s
    <3>3. Alone(Rest(a), s)
      BY <2>0, <3>1, <3>2 DEF Alone
    <3>5. t \in Slice /\ SameFlags(s, t)
      <4>1. /\ [s EXCEPT !.isSuccess = TRUE] \in Slice
            /\ SameFlags(s, [s EXCEPT !.isSuccess = TRUE])
        BY <3>1 DEF Slice, SameFlags
      <4> HIDE DEF t
      <4>2. /\ Emptied([s EXCEPT !.isSuccess = TRUE]) \in Slice
            /\ SameFlags(s, Emptied([s EXCEPT !.isSuccess = TRUE]))
        BY <4>1, SliceTypes, FlagsKept DEF SameFlags
      <4> QED
        BY <3>1, <4>2, FlagsKept DEF t
    <3> HIDE DEF t
    <3>6. Alone(Rest(a), t)
      BY <3>3, <3>5, PlainAlone
    <3> QED
      BY <3>4, <3>5, <3>6, ShowAlone
  <2> QED
    BY <1>11, <2>1, <2>2, <2>3, <2>4, <2>5 DEF answered_by
<1> QED
  BY <1>1, <1>2, <1>3, <1>4, <1>5, <1>6, <1>7, <1>8, <1>9, <1>10, <1>11 DEF OrgPagesNext

-----------------------------------------------------------------------------
(* DetailsFit: details that this page asked for are those of its organisation. *)

Fitting ==
  /\ \A a \in asked :
       /\ a.n <= number
       /\ a.kind = "details" /\ a.n > opened /\ route.page # "list" => a.org = route.org
  /\ DetailsFit

LEMMA MountListFits ==
  ASSUME OrgPagesTypeOK, NEW s, NEW as \in SUBSET OrgRequest, MountList(s, as),
         \A a \in as : a.n <= number
  PROVE  Fitting'
<1>1. /\ route'.page = "list" /\ number' = number + 1 /\ number \in Nat
      /\ asked' = as \union {Asking("approved", NoOrg)}
  BY DEF MountList, ListOf, OrgPagesTypeOK
<1>2. Asking("approved", NoOrg).n = number + 1
  BY DEF Asking
<1>3. \A a \in as : a.n \in Nat
  BY DEF OrgRequest
<1>4. ASSUME NEW a \in asked' PROVE a.n <= number'
  <2>1. CASE a \in as
    <3>1. a.n \in Nat /\ a.n <= number
      BY <1>3, <2>1
    <3> QED
      BY <1>1, <3>1
  <2>2. CASE a = Asking("approved", NoOrg)
    BY <1>1, <1>2, <2>2
  <2> QED
    BY <1>1, <2>1, <2>2
<1>5. DetailsFit'
  BY <1>1 DEF DetailsFit
<1> QED
  BY <1>1, <1>4, <1>5 DEF Fitting

\* The page stays, and the details are as they were or emptied.
LEMMA StayFits ==
  ASSUME OrgPagesTypeOK, Fitting, UNCHANGED <<route, opened, disturbed, number>>,
         asked' \subseteq asked,
         organisation'.organisationFormData \in {NoOrg, organisation.organisationFormData}
  PROVE  Fitting'
BY DEF Fitting, DetailsFit

LEMMA ShowFits ==
  ASSUME OrgPagesTypeOK, Fitting, NEW s, NEW as \in SUBSET asked, Show(route, s, as),
         s.organisationFormData \in {NoOrg, organisation.organisationFormData},
         ~Leaves(route, s) => UNCHANGED <<opened, disturbed>>
  PROVE  Fitting'
<1>1. as \in SUBSET OrgRequest /\ \A a \in as : a.n <= number
  BY DEF OrgPagesTypeOK, Fitting
<1>2. CASE Leaves(route, s)
  <2>1. MountList(redirected(route, s), as)
    BY <1>2 DEF Show
  <2> QED
    BY <1>1, <2>1, MountListFits
<1>3. CASE ~Leaves(route, s)
  BY <1>3, StayFits DEF Show
<1> QED
  BY <1>2, <1>3

LEMMA MountFormFits ==
  ASSUME OrgPagesTypeOK, Fitting, NEW r \in Route, r.page # "list", MountForm(r)
  PROVE  Fitting'
<1> DEFINE details == r.page \in {"edit", "approve"}
           s == IF details THEN GetIndividualOrganization(organisation) ELSE organisation
           shown == IF r.page = "approve" THEN s ELSE cleared(s)
           q == Asking("details", r.org)
           as == IF details THEN asked \union {q} ELSE asked
           approved == [n |-> number + 2, kind |-> "approved", org |-> NoOrg]
<1>1. /\ organisation \in Slice /\ number \in Nat /\ \A a \in asked : a.n \in Nat
      /\ \A a \in asked : a.n <= number
  BY DEF OrgPagesTypeOK, OrgRequest, Fitting
<1>2. q.n = number + 1 /\ q.kind = "details" /\ q.org = r.org
  BY DEF Asking
<1>3. shown.organisationFormData = NoOrg
  BY <1>1, SliceTypes DEF cleared, GetIndividualOrganization, Slice, Route
<1> HIDE DEF s, shown, as, q
<1>4. CASE Leaves(r, [s EXCEPT !.consentApproval = FALSE])
  <2>1. /\ route' = ListOf /\ asked' = as \union {approved}
    BY <1>4, Zenon DEF MountForm, s, shown, as, q
  <2>2. number' = number + 2
    BY <1>4, Zenon DEF MountForm, s, shown, as, q
  <2>3. \A a \in as : a.n <= number + 2
    BY <1>1, <1>2 DEF as
  <2>4. approved.n = number + 2
    OBVIOUS
  <2> HIDE DEF approved
  <2>5. ASSUME NEW a \in asked' PROVE a.n <= number'
    <3>1. CASE a \in as
      BY <2>2, <2>3, <3>1
    <3>2. CASE a = approved
      BY <1>1, <2>2, <2>4, <3>2
    <3> QED
      BY <2>1, <3>1, <3>2
  <2> QED
    BY <2>1, <2>5 DEF Fitting, DetailsFit, ListOf
<1>5. CASE ~Leaves(r, [s EXCEPT !.consentApproval = FALSE])
  <2>1. route' = r /\ organisation' = shown /\ asked' = as /\ opened' = number
    BY <1>5, Zenon DEF MountForm, s, shown, as, q
  <2>2. number' = IF details THEN number + 1 ELSE number
    BY <1>5, Zenon DEF MountForm, s, shown, as, q
  <2>3. \A a \in as : a.n <= number'
    BY <1>1, <1>2, <2>2 DEF as
  <2>4. \A a \in as : a.n > number => a.org = r.org
    BY <1>1, <1>2 DEF as
  <2> QED
    BY <1>3, <2>1, <2>3, <2>4 DEF Fitting, DetailsFit
<1> QED
  BY <1>4, <1>5

LEMMA FittingStep ==
  ASSUME OrgPagesTypeOK, Fitting, [OrgPagesNext]_orgPageVars
  PROVE  Fitting'
<1>0. organisation \in Slice /\ asked \subseteq OrgRequest /\ number \in Nat
  BY DEF OrgPagesTypeOK
<1>a. \A k, o : Asking(k, o).kind = k /\ Asking(k, o).n = number + 1
  BY DEF Asking
<1>b. ASSUME UNCHANGED <<route, opened, disturbed>>, number' = number + 1,
             organisation'.organisationFormData = organisation.organisationFormData,
             NEW q, asked' = asked \union {q}, q.kind # "details", q.n = number + 1
      PROVE  Fitting'
  <2>1. \A a \in asked : a.n \in Nat
    BY <1>0 DEF OrgRequest
  <2>2. \A a \in asked' : a.n <= number'
    BY <1>0, <1>b, <2>1 DEF Fitting
  <2>3. DetailsFit'
    BY <1>b DEF Fitting, DetailsFit
  <2>4. \A a \in asked' : a.kind = "details" /\ a.n > opened' /\ route'.page # "list"
                            => a.org = route'.org
    BY <1>b DEF Fitting
  <2> QED
    BY <2>2, <2>3, <2>4 DEF Fitting
<1>1. CASE UNCHANGED orgPageVars
  BY <1>1, StayFits DEF orgPageVars
<1>2. ASSUME NEW r \in Route, open_page(r) PROVE Fitting'
  <2>1. CASE r.page = "list"
    <3>1. MountList(organisation, asked)
      BY <1>2, <2>1 DEF open_page
    <3> QED
      BY <1>0, <3>1, MountListFits DEF Fitting
  <2>2. CASE r.page # "list"
    BY <1>2, <2>2, MountFormFits DEF open_page
  <2> QED
    BY <2>1, <2>2
<1>3. ASSUME NEW v \in BOOLEAN, setVerifiedTab(v) PROVE Fitting'
  <2>1. organisation'.organisationFormData = organisation.organisationFormData
    BY <1>0, <1>3 DEF setVerifiedTab, Slice
  <2> QED
    BY <1>3, <1>a, <1>b, <2>1 DEF setVerifiedTab
<1>4. ASSUME loadMyOrganisations PROVE Fitting'
  <2>1. organisation'.organisationFormData = organisation.organisationFormData
    BY <1>0, <1>4 DEF loadMyOrganisations, Slice
  <2>2. CASE myOrgsLoaded
    BY <1>4, <2>2, StayFits DEF loadMyOrganisations
  <2>3. CASE ~myOrgsLoaded
    BY <1>4, <1>a, <1>b, <2>1, <2>3 DEF loadMyOrganisations
  <2> QED
    BY <2>2, <2>3
<1>5. CASE showAll \/ give_consent \/ type_details
  BY <1>5, StayFits DEF showAll, give_consent, type_details
<1>6. ASSUME submit_consent PROVE Fitting'
  <2> DEFINE s == [organisation EXCEPT !.consentApproval = TRUE, !.consentDetails = TRUE]
  <2>1. s.organisationFormData = organisation.organisationFormData
    BY <1>0 DEF Slice
  <2>2. Show(route, s, asked) /\ (~Leaves(route, s) => UNCHANGED <<opened, disturbed>>)
    BY <1>6, Zenon DEF submit_consent
  <2> HIDE DEF s
  <2> QED
    BY <2>1, <2>2, ShowFits
<1>7. ASSUME Back PROVE Fitting'
  <2>1. organisation'.organisationFormData = organisation.organisationFormData
    BY <1>0, <1>7 DEF Back, Slice
  <2> QED
    BY <1>7, <2>1, StayFits DEF Back
<1>8. ASSUME submission PROVE Fitting'
  <2>1. organisation'.organisationFormData = organisation.organisationFormData
    BY <1>0, <1>8 DEF submission, Slice
  <2> QED
    BY <1>8, <1>a, <1>b, <2>1 DEF submission
<1>9. ASSUME approveOrganization PROVE Fitting'
  <2>1. organisation'.organisationFormData = organisation.organisationFormData
    BY <1>0, <1>9 DEF approveOrganization, Slice
  <2> QED
    BY <1>9, <1>a, <1>b, <2>1 DEF approveOrganization
<1>10. ASSUME rejectOrganization PROVE Fitting'
  <2>1. organisation'.organisationFormData = organisation.organisationFormData
    BY <1>0, <1>10 DEF rejectOrganization, Slice
  <2> QED
    BY <1>10, <1>a, <1>b, <2>1 DEF rejectOrganization
<1>11. ASSUME NEW a \in asked, NEW ok \in BOOLEAN, answered_by(a, ok) PROVE Fitting'
  <2>0. Rest(a) \subseteq asked
    BY DEF Rest
  <2>1. ASSUME OrganisationDataService(a, ok) PROVE Fitting'
    <3>1. organisation'.organisationFormData = organisation.organisationFormData
      BY <1>0, <2>1 DEF OrganisationDataService, Slice
    <3> QED
      BY <2>0, <2>1, <3>1, StayFits DEF OrganisationDataService
  <2>2. ASSUME MyOrganisationDataService(a, ok) PROVE Fitting'
    <3>1. organisation'.organisationFormData = organisation.organisationFormData
      BY <1>0, <2>2 DEF MyOrganisationDataService, Slice
    <3> QED
      BY <2>0, <2>2, <3>1, StayFits DEF MyOrganisationDataService
  <2>3. ASSUME SetIndividualOrganization(a, ok) PROVE Fitting'
    <3>1. CASE ~ok
      BY <2>0, <2>3, <3>1, StayFits DEF SetIndividualOrganization
    <3>2. CASE ok
      <4>1. organisation'.organisationFormData = a.org
        BY <1>0, <2>3, <3>2 DEF SetIndividualOrganization, Slice
      <4>2. a.n \in Nat /\ opened \in Nat
        BY <1>0 DEF OrgRequest, OrgPagesTypeOK
      <4>3. CASE a.n <= opened
        BY <2>0, <2>3, <3>2, <4>3 DEF SetIndividualOrganization, Fitting, DetailsFit
      <4>4. CASE a.n > opened
        BY <2>0, <2>3, <3>2, <4>1, <4>4 DEF SetIndividualOrganization, Fitting, DetailsFit
      <4> QED
        BY <4>2, <4>3, <4>4
    <3> QED
      BY <3>1, <3>2
  <2>4. ASSUME PostOrganisationDataService(a, ok) PROVE Fitting'
    <3> DEFINE s == [organisation EXCEPT !.postOrganisationDataLoading = FALSE]
               t == IF ok THEN Emptied([s EXCEPT !.postOrganisationData = TRUE]) ELSE s
    <3>1. t.organisationFormData \in {NoOrg, organisation.organisationFormData}
      BY <1>0 DEF Slice, Emptied
    <3>2. Show(route, t, Rest(a)) /\ (~Leaves(route, t) => UNCHANGED <<opened, disturbed>>)
      BY <2>4, Zenon DEF PostOrganisationDataService
    <3> HIDE DEF t
    <3> QED
      BY <2>0, <3>1, <3>2, ShowFits
  <2>5. ASSUME ApproveOrganizationService(a, ok) PROVE Fitting'
    <3> DEFINE s == IF a.kind = "approve"
                    THEN [organisation EXCEPT !.organizationApproving = FALSE]
                    ELSE [organisation EXCEPT !.organizationRejecting = FALSE]
               t == IF ok THEN Emptied([s EXCEPT !.isSuccess = TRUE]) ELSE s
    <3>1. t.organisationFormData \in {NoOrg, organisation.organisationFormData}
      BY <1>0 DEF Slice, Emptied
    <3>2. Show(route, t, Rest(a)) /\ (~Leaves(route, t) => UNCHANGED <<opened, disturbed>>)
      BY <2>5, Zenon DEF ApproveOrganizationService
    <3> HIDE DEF t
    <3> QED
      BY <2>0, <3>1, <3>2, ShowFits
  <2> QED
    BY <1>11, <2>1, <2>2, <2>3, <2>4, <2>5 DEF answered_by
<1> QED
  BY <1>1, <1>2, <1>3, <1>4, <1>5, <1>6, <1>7, <1>8, <1>9, <1>10, <1>11 DEF OrgPagesNext

-----------------------------------------------------------------------------
LEMMA OrgPagesStart ==
  OrgPagesInit => OrgPagesTypeOK /\ Alone(asked, organisation) /\ Fitting
<1> SUFFICES ASSUME OrgPagesInit
             PROVE  OrgPagesTypeOK /\ Alone(asked, organisation) /\ Fitting
  OBVIOUS
<1> DEFINE q == [n |-> 1, kind |-> "approved", org |-> NoOrg]
<1>1. route = ListOf /\ asked = {q} /\ q.n = 1 /\ q.kind = "approved" /\ number = 1
  BY DEF OrgPagesInit
<1>2. q \in OrgRequest /\ ListOf \in Route /\ ListOf.page = "list"
  BY DEF OrgRequest, Kind, Route, ListOf
<1>3. organisation \in Slice
  BY DEF OrgPagesInit, initialState, Slice
<1>4. /\ role \in {"ADMIN", "MAPPER"} /\ manages \subseteq Org /\ activeTab \in {0, 1}
      /\ opened \in Nat
  BY DEF OrgPagesInit
<1>5. /\ verifiedTab \in BOOLEAN /\ myOrgsLoaded \in BOOLEAN /\ consent \in BOOLEAN
      /\ typed \in BOOLEAN /\ disturbed \in BOOLEAN
  BY Zenon DEF OrgPagesInit
<1> HIDE DEF q
<1>6. OrgPagesTypeOK
  BY <1>1, <1>2, <1>3, <1>4, <1>5 DEF OrgPagesTypeOK
<1>7. Alone(asked, organisation)
  BY <1>1 DEF Alone
<1>8. Fitting
  BY <1>1, <1>2 DEF Fitting, DetailsFit
<1> QED
  BY <1>6, <1>7, <1>8

\* The pages for organisations are type correct.
THEOREM OrgPagesTypeCorrect == OrgPagesSpec => []OrgPagesTypeOK
<1>1. OrgPagesInit => OrgPagesTypeOK
  BY OrgPagesStart
<1>2. OrgPagesTypeOK /\ [OrgPagesNext]_orgPageVars => OrgPagesTypeOK'
  BY OrgTypeStep
<1> QED
  BY <1>1, <1>2, PTL DEF OrgPagesSpec

\* However often the pages are left and opened again, a second decision or a second form is
\* not sent while one is under way.
THEOREM OneDecisionHolds == OrgPagesSpec => []OneDecision
<1>1. OrgPagesInit => Alone(asked, organisation)
  BY OrgPagesStart
<1>2. OrgPagesTypeOK /\ Alone(asked, organisation) /\ [OrgPagesNext]_orgPageVars
        => Alone(asked, organisation)'
  BY AloneStep
<1>3. Alone(asked, organisation) => OneDecision
  BY DEF Alone, OneDecision
<1> QED
  BY <1>1, <1>2, <1>3, OrgPagesTypeCorrect, PTL DEF OrgPagesSpec

\* The details on a page are those of the organisation in its address, unless details asked
\* for by an earlier page have come.
THEOREM DetailsFitHolds == OrgPagesSpec => []DetailsFit
<1>1. OrgPagesInit => Fitting
  BY OrgPagesStart
<1>2. OrgPagesTypeOK /\ Fitting /\ [OrgPagesNext]_orgPageVars => Fitting'
  BY FittingStep
<1>3. Fitting => DetailsFit
  BY DEF Fitting
<1> QED
  BY <1>1, <1>2, <1>3, OrgPagesTypeCorrect, PTL DEF OrgPagesSpec

-----------------------------------------------------------------------------
(* The page that edits a project. *)

LEMMA DetailsTypes ==
  /\ NoDetails \in Details
  /\ \A p \in Managed : DetailsOf(p) \in Details
  /\ \A d \in Details : Copied(d) \in [of : Managed \union {Unnamed},
                                       per_task_instructions : SUBSET Managed, typed : BOOLEAN]
BY DEF NoDetails, DetailsOf, Details, Copied

LEMMA SentType ==
  ASSUME ManageTypeOK, project # Unnamed, NEW kind \in {"details", "patch", "form", "delete"},
         NEW of \in Managed \union {Unnamed}, NEW from \in SUBSET Managed
  PROVE  Sent(kind, of, from) \in Ask
<1> DEFINE u == unsettled \/ \E a \in asks : a.kind = "details" /\ a.n > arrival
<1>1. u \in BOOLEAN
  BY Zenon DEF ManageTypeOK
<1>2. count + 1 \in Nat /\ project \in Managed /\ inherited \in SUBSET Managed
  BY DEF ManageTypeOK
<1>3. Sent(kind, of, from) = [n |-> count + 1, kind |-> kind, project |-> project, of |-> of,
                              from |-> from, unsettled |-> u, inherited |-> inherited]
  BY Zenon DEF Sent
<1> HIDE DEF u
<1> QED
  BY <1>1, <1>2, <1>3 DEF Ask

LEMMA LoadsType ==
  ASSUME ManageTypeOK, NEW p \in Managed
  PROVE  loads(p) \subseteq Ask
BY DEF loads, Ask, ManageTypeOK

LEMMA SynchronisedTypes ==
  ASSUME ManageTypeOK, NEW d \in Details, Synchronised(d)
  PROVE  /\ values' \in [of : Managed \union {Unnamed}, per_task_instructions : SUBSET Managed,
                         typed : BOOLEAN]
         /\ editor' \in SUBSET Managed
<1>1. editor \in SUBSET Managed /\ d.per_task_instructions \in SUBSET Managed
  BY DEF ManageTypeOK, Details
<1>2. CASE OnForm
  <2>1. values' = Copied(d) /\ editor' = IF editor = {} THEN d.per_task_instructions ELSE editor
    BY <1>2, Zenon DEF Synchronised
  <2> QED
    BY <1>1, <2>1, DetailsTypes
<1>3. CASE ~OnForm
  <2>1. values' = values /\ editor' = editor
    BY <1>3, Zenon DEF Synchronised
  <2> QED
    BY <2>1 DEF ManageTypeOK
<1> QED
  BY <1>2, <1>3

LEMMA MountTypes ==
  ASSUME ManageTypeOK, MountDescription
  PROVE  /\ values' \in [of : Managed \union {Unnamed}, per_task_instructions : SUBSET Managed,
                         typed : BOOLEAN]
         /\ editor' \in SUBSET Managed /\ inherited' \in SUBSET Managed
<1>1. editProjectDetails.per_task_instructions \in SUBSET Managed
  BY DEF ManageTypeOK, Details
<1>2. values' = Copied(editProjectDetails) /\ editor' = editProjectDetails.per_task_instructions
      /\ inherited' = editor'
  BY Zenon DEF MountDescription
<1> QED
  BY <1>1, <1>2, DetailsTypes DEF ManageTypeOK

\* The dialog is open on the page only.
DialogKept == confirm.showModal => project # Unnamed

LEMMA ManageTypeStep ==
  ASSUME ManageTypeOK, DialogKept, [ManageNext]_managePageVars
  PROVE  ManageTypeOK'
<1> DEFINE Value == [of : Managed \union {Unnamed}, per_task_instructions : SUBSET Managed,
                     typed : BOOLEAN]
           Dialog == [showModal : BOOLEAN, name : Managed \union {Unnamed}, enabled : BOOLEAN]
<1>0. /\ project \in Managed \union {Unnamed} /\ tabView \in Tab
      /\ editProjectDetails \in Details /\ values \in Value /\ editor \in SUBSET Managed
      /\ confirm \in Dialog /\ asks \subseteq Ask /\ count \in Nat /\ arrival \in Nat
      /\ inherited \in SUBSET Managed
  BY DEF ManageTypeOK
<1>a. Closed \in Dialog /\ "description" \in Tab /\ {} \in SUBSET Managed
  BY DEF Closed, Tab
<1>b. Copied(NoDetails) \in Value
  BY DetailsTypes
<1>c. FALSE \in BOOLEAN /\ unsettled \in BOOLEAN
  BY Zenon DEF ManageTypeOK
<1>d. flags \in [editProjectDetailsLoading : BOOLEAN, formUpdateLoading : BOOLEAN]
  BY Zenon DEF ManageTypeOK
<1>1. CASE UNCHANGED managePageVars
  BY <1>1, Zenon DEF managePageVars, ManageTypeOK
<1>2. ASSUME NEW p \in Managed, open_project(p) PROVE ManageTypeOK'
  <2>1. /\ project' = p /\ asks' = asks \union loads(p) /\ count' = count + 1
        /\ arrival' = count /\ editProjectDetails' = editProjectDetails /\ flags' = flags
    BY <1>2, Zenon DEF open_project
  <2>2. unsettled' \in BOOLEAN
    BY <1>2, <1>c, Zenon DEF open_project
  <2>3. /\ project' \in Managed \union {Unnamed} /\ asks' \subseteq Ask /\ count' \in Nat
        /\ arrival' \in Nat
    BY <1>0, <2>1, LoadsType
  <2>4. /\ tabView' \in Tab /\ confirm' \in Dialog /\ values' \in Value
        /\ editor' \in SUBSET Managed /\ inherited' \in SUBSET Managed
    <3>1. CASE project = Unnamed
      <4>1. tabView' = "description" /\ confirm' = Closed /\ MountDescription
        BY <1>2, <3>1, Zenon DEF open_project
      <4> QED
        BY <1>a, <4>1, MountTypes
    <3>2. CASE project # Unnamed
      <4>1. inherited' = editor /\ UNCHANGED <<tabView, confirm, values, editor>>
        BY <1>2, <3>2, Zenon DEF open_project
      <4> QED
        BY <1>0, <4>1, Zenon
    <3> QED
      BY <3>1, <3>2
  <2> QED
    BY <1>0, <1>d, <2>1, <2>2, <2>3, <2>4, Zenon DEF ManageTypeOK
<1>3. ASSUME leave_project PROVE ManageTypeOK'
  <2>1. project' \in Managed \union {Unnamed}
    BY <1>3 DEF leave_project
  <2> QED
    BY <1>0, <1>a, <1>b, <1>c, <1>d, <1>3, <2>1, Zenon DEF leave_project, ManageTypeOK
<1>4. ASSUME NEW tab \in Tab, setTabView(tab) PROVE ManageTypeOK'
  <2>1. /\ values' \in Value /\ editor' \in SUBSET Managed /\ inherited' \in SUBSET Managed
    <3>1. CASE tab = "description"
      <4>1. MountDescription
        BY <1>4, <3>1, Zenon DEF setTabView
      <4> QED
        BY <4>1, MountTypes
    <3>2. CASE tab # "description"
      BY <1>a, <1>b, <1>4, <3>2, Zenon DEF setTabView
    <3> QED
      BY <3>1, <3>2
  <2> QED
    BY <1>0, <1>a, <1>c, <1>d, <1>4, <2>1, Zenon DEF setTabView, ManageTypeOK
<1>5. ASSUME handleChange PROVE ManageTypeOK'
  <2>1. [values EXCEPT !.typed = TRUE] \in Value
    BY <1>0
  <2> QED
    BY <1>0, <1>c, <1>d, <1>5, <2>1, Zenon DEF handleChange, ManageTypeOK
<1>6. ASSUME NEW text \in SUBSET Managed, edit_instructions(text) PROVE ManageTypeOK'
  <2>1. [values EXCEPT !.per_task_instructions = text] \in Value
    BY <1>0
  <2> QED
    BY <1>0, <1>c, <1>d, <1>6, <2>1, Zenon DEF edit_instructions, ManageTypeOK
<1>7. ASSUME submission_details PROVE ManageTypeOK'
  <2> DEFINE d == [of |-> values.of, per_task_instructions |-> values.per_task_instructions]
             from == IF d # editProjectDetails THEN d.per_task_instructions ELSE {}
  <2>1. d \in Details /\ from \in SUBSET Managed
    BY <1>0 DEF Details
  <2>2. /\ project # Unnamed /\ editProjectDetails' = d /\ Synchronised(d)
        /\ UNCHANGED <<project, tabView, confirm, arrival, unsettled, inherited>>
    BY <1>7, Zenon DEF submission_details, OnForm
  <2>3. \/ UNCHANGED <<asks, count, flags>>
        \/ /\ asks' = asks \union {Sent("patch", project, from)} /\ count' = count + 1
           /\ flags' = [flags EXCEPT !.editProjectDetailsLoading = TRUE]
    BY <1>7, Zenon DEF submission_details
  <2> HIDE DEF d, from
  <2>4. asks' \subseteq Ask
    <3>1. Sent("patch", project, from) \in Ask
      BY <1>0, <2>1, <2>2, SentType
    <3> QED
      BY <1>0, <2>3, <3>1
  <2>5. count' \in Nat
    <3>1. count' = count \/ count' = count + 1
      BY <2>3, Zenon
    <3> QED
      BY <1>0, <3>1
  <2>6. flags' \in [editProjectDetailsLoading : BOOLEAN, formUpdateLoading : BOOLEAN]
    <3>1. [flags EXCEPT !.editProjectDetailsLoading = TRUE]
            \in [editProjectDetailsLoading : BOOLEAN, formUpdateLoading : BOOLEAN]
      BY <1>d
    <3> QED
      BY <1>d, <2>3, <3>1, Zenon
  <2>7. values' \in Value /\ editor' \in SUBSET Managed
    BY <2>1, <2>2, SynchronisedTypes
  <2> QED
    BY <1>0, <1>c, <2>1, <2>2, <2>4, <2>5, <2>6, <2>7, Zenon DEF ManageTypeOK
<1>8. ASSUME PostFormUpdate PROVE ManageTypeOK'
  <2>1. asks' = asks \union {Sent("form", editProjectDetails.of, {})} /\ project # Unnamed
        /\ count' = count + 1
    BY <1>8, Zenon DEF PostFormUpdate
  <2>2. editProjectDetails.of \in Managed \union {Unnamed}
    BY <1>0 DEF Details
  <2>3. Sent("form", editProjectDetails.of, {}) \in Ask
    BY <2>1, <2>2, SentType
  <2>4. asks' \subseteq Ask /\ count' \in Nat
    BY <1>0, <2>1, <2>3
  <2>5. [flags EXCEPT !.formUpdateLoading = TRUE]
          \in [editProjectDetailsLoading : BOOLEAN, formUpdateLoading : BOOLEAN]
    BY <1>d
  <2> QED
    BY <1>0, <1>c, <1>8, <2>4, <2>5, Zenon DEF PostFormUpdate, ManageTypeOK
<1>9. ASSUME NEW shown \in BOOLEAN, setShowModal(shown) PROVE ManageTypeOK'
  <2>1. [confirm EXCEPT !.showModal = shown] \in Dialog
    BY <1>0
  <2> QED
    BY <1>0, <1>c, <1>d, <1>9, <2>1, Zenon DEF setShowModal, ManageTypeOK
<1>10. ASSUME closeModal PROVE ManageTypeOK'
  BY <1>0, <1>a, <1>c, <1>d, <1>10, Zenon DEF closeModal, ManageTypeOK
<1>11. ASSUME NEW name \in Managed \union {Unnamed}, handleConfirmChange(name) PROVE ManageTypeOK'
  <2>1. [confirm EXCEPT !.name = name, !.enabled = (name = editProjectDetails.of)] \in Dialog
    BY <1>0
  <2> QED
    BY <1>0, <1>c, <1>d, <1>11, <2>1, Zenon DEF handleConfirmChange, ManageTypeOK
<1>12. ASSUME onSave_delete PROVE ManageTypeOK'
  <2>1. asks' = asks \union {Sent("delete", confirm.name, {})} /\ count' = count + 1
    BY <1>12, Zenon DEF onSave_delete
  <2>2. confirm.name \in Managed \union {Unnamed}
    BY <1>0
  <2>3. [confirm EXCEPT !.showModal = FALSE] \in Dialog
    BY <1>0
  <2>4. project # Unnamed
    BY <1>12 DEF onSave_delete, DialogKept
  <2>5. Sent("delete", confirm.name, {}) \in Ask
    BY <1>a, <2>2, <2>4, SentType
  <2>6. asks' \subseteq Ask /\ count' \in Nat
    BY <1>0, <2>1, <2>5
  <2> QED
    BY <1>0, <1>c, <1>d, <1>12, <2>3, <2>6, Zenon DEF onSave_delete, ManageTypeOK
<1>13. ASSUME NEW a \in asks, NEW ok \in BOOLEAN, answer_project(a, ok) PROVE ManageTypeOK'
  <2>1. /\ asks' = asks \ {a} /\ UNCHANGED <<project, tabView, confirm, count, arrival>>
        /\ \/ GetIndividualProjectDetails(a, ok) \/ PatchProjectDetails(a) \/ FormUpdated(a)
           \/ UNCHANGED <<editProjectDetails, values, editor, flags, unsettled, inherited>>
    BY <1>13, Zenon DEF answer_project
  <2>2. asks' \subseteq Ask
    BY <1>0, <2>1
  <2>3. ASSUME GetIndividualProjectDetails(a, ok) PROVE ManageTypeOK'
    <3>1. a.project \in Managed
      BY <1>0 DEF Ask
    <3>2. DetailsOf(a.project) \in Details
      BY <3>1, DetailsTypes
    <3>3. \/ /\ editProjectDetails' = DetailsOf(a.project)
             /\ Synchronised(DetailsOf(a.project))
          \/ UNCHANGED <<editProjectDetails, values, editor>>
      BY <2>3, Zenon DEF GetIndividualProjectDetails
    <3>4. editProjectDetails' \in Details
      BY <1>0, <3>2, <3>3
    <3>5. values' \in Value /\ editor' \in SUBSET Managed
      BY <1>0, <3>2, <3>3, SynchronisedTypes
    <3>6. unsettled' \in BOOLEAN
      BY <1>c, <2>3, Zenon DEF GetIndividualProjectDetails
    <3>7. inherited' = inherited \/ inherited' = inherited \union {a.project}
      BY <2>3, Zenon DEF GetIndividualProjectDetails
    <3>8. inherited' \in SUBSET Managed
      BY <1>0, <3>1, <3>7
    <3> QED
      BY <1>0, <1>d, <2>1, <2>2, <2>3, <3>4, <3>5, <3>6, <3>8, Zenon
         DEF GetIndividualProjectDetails, ManageTypeOK
  <2>4. ASSUME PatchProjectDetails(a) PROVE ManageTypeOK'
    <3>1. [flags EXCEPT !.editProjectDetailsLoading = FALSE]
            \in [editProjectDetailsLoading : BOOLEAN, formUpdateLoading : BOOLEAN]
      BY <1>d
    <3> QED
      BY <1>0, <1>c, <2>1, <2>2, <2>4, <3>1, Zenon DEF PatchProjectDetails, ManageTypeOK
  <2>5. ASSUME FormUpdated(a) PROVE ManageTypeOK'
    <3>1. [flags EXCEPT !.formUpdateLoading = FALSE]
            \in [editProjectDetailsLoading : BOOLEAN, formUpdateLoading : BOOLEAN]
      BY <1>d
    <3> QED
      BY <1>0, <1>c, <2>1, <2>2, <2>5, <3>1, Zenon DEF FormUpdated, ManageTypeOK
  <2>6. ASSUME UNCHANGED <<editProjectDetails, values, editor, flags, unsettled, inherited>>
        PROVE  ManageTypeOK'
    BY <1>0, <1>c, <1>d, <2>1, <2>2, <2>6, Zenon DEF ManageTypeOK
  <2> QED
    BY <2>1, <2>3, <2>4, <2>5, <2>6
<1>14. ASSUME NEW a \in asks, redirect_home(a) PROVE ManageTypeOK'
  <2>1. NotLoading \in [editProjectDetailsLoading : BOOLEAN, formUpdateLoading : BOOLEAN]
    BY DEF NotLoading
  <2>2. Unnamed \in Managed \union {Unnamed} /\ {} \subseteq Ask
    OBVIOUS
  <2> QED
    BY <1>0, <1>a, <1>b, <1>c, <1>14, <2>1, <2>2, DetailsTypes, Zenon
       DEF redirect_home, ManageTypeOK
<1> HIDE DEF Value, Dialog
<1> QED
  BY <1>1, <1>2, <1>3, <1>4, <1>5, <1>6, <1>7, <1>8, <1>9, <1>10, <1>11, <1>12, <1>13, <1>14
     DEF ManageNext

LEMMA DialogStep ==
  ASSUME ManageTypeOK, DialogKept, [ManageNext]_managePageVars
  PROVE  DialogKept'
<1>0. Unnamed \notin Managed /\ ~Closed.showModal
      /\ confirm \in [showModal : BOOLEAN, name : Managed \union {Unnamed}, enabled : BOOLEAN]
  BY ManageAssumption DEF Closed, ManageTypeOK
<1>1. ASSUME UNCHANGED <<project, confirm>> PROVE DialogKept'
  BY <1>1 DEF DialogKept
<1>2. CASE UNCHANGED managePageVars
  BY <1>1, <1>2 DEF managePageVars
<1>3. ASSUME NEW p \in Managed, open_project(p) PROVE DialogKept'
  <2>1. project' = p
    BY <1>3, Zenon DEF open_project
  <2> QED
    BY <1>0, <2>1 DEF DialogKept
<1>4. ASSUME confirm' = Closed PROVE DialogKept'
  BY <1>0, <1>4 DEF DialogKept
<1>5. leave_project => confirm' = Closed
  BY Zenon DEF leave_project
<1>6. \A tab \in Tab : setTabView(tab) => confirm' = Closed
  BY Zenon DEF setTabView
<1>7. handleChange => UNCHANGED <<project, confirm>>
  BY Zenon DEF handleChange
<1>8. \A text \in SUBSET Managed : edit_instructions(text) => UNCHANGED <<project, confirm>>
  BY Zenon DEF edit_instructions
<1>9. submission_details => UNCHANGED <<project, confirm>>
  BY Zenon DEF submission_details
<1>10. PostFormUpdate => UNCHANGED <<project, confirm>>
  BY Zenon DEF PostFormUpdate
<1>11. ASSUME NEW shown \in BOOLEAN, setShowModal(shown) PROVE DialogKept'
  <2>1. project # Unnamed /\ project' = project
    BY <1>11, Zenon DEF setShowModal
  <2> QED
    BY <2>1 DEF DialogKept
<1>12. closeModal => confirm' = Closed
  BY Zenon DEF closeModal
<1>13. ASSUME NEW name \in Managed \union {Unnamed}, handleConfirmChange(name) PROVE DialogKept'
  <2>1. confirm.showModal /\ project' = project
    BY <1>13, Zenon DEF handleConfirmChange
  <2> QED
    BY <2>1 DEF DialogKept
<1>14. ASSUME onSave_delete PROVE DialogKept'
  <2>1. confirm.showModal /\ project' = project
    BY <1>14, Zenon DEF onSave_delete
  <2> QED
    BY <2>1 DEF DialogKept
<1>15. \A a \in asks, ok \in BOOLEAN : answer_project(a, ok) => UNCHANGED <<project, confirm>>
  BY Zenon DEF answer_project
<1>16. \A a \in asks : redirect_home(a) => confirm' = Closed
  BY Zenon DEF redirect_home
<1> QED
  BY <1>1, <1>2, <1>3, <1>4, <1>5, <1>6, <1>7, <1>8, <1>9, <1>10, <1>11, <1>12, <1>13, <1>14,
     <1>15, <1>16, Zenon DEF ManageNext

-----------------------------------------------------------------------------
(* SentFits: of the requests for details that came since the page was opened for this       *)
(* project there is at most its own; once that has been answered the details are its own,   *)
(* and the text of the form stems from it or from what the editor was given.                *)

Coming == {a \in asks : a.kind = "details" /\ a.n > arrival}

Settled == project # Unnamed /\ ~unsettled /\ Coming = {}

OwnOrInherited == {project} \union inherited

AsksKept ==
  /\ arrival <= count
  /\ \A a \in asks : a.n <= count
  /\ project # Unnamed => \A a \in Coming : a.project = project /\ a.n = arrival + 1

FormKept ==
  /\ OnForm =>
       /\ values.of = editProjectDetails.of
       /\ editor \subseteq OwnOrInherited
       /\ editor = {} => values.per_task_instructions = {}
  /\ Settled =>
       /\ editProjectDetails.of = project
       /\ OnForm => values.per_task_instructions \subseteq OwnOrInherited

\* A request that is not one for the details.
LEMMA Another ==
  ASSUME ManageTypeOK, AsksKept, NEW a, a.n = count + 1, a.kind # "details",
         asks' = asks \union {a}, count' = count + 1, UNCHANGED <<project, arrival>>
  PROVE  AsksKept' /\ Coming' = Coming
<1>1. \A b \in asks : b.n \in Nat
  BY DEF ManageTypeOK, Ask
<1>2. Coming' = Coming
  BY DEF Coming
<1> QED
  BY <1>1, <1>2 DEF AsksKept, ManageTypeOK

LEMMA Fewer ==
  ASSUME ManageTypeOK, AsksKept, NEW a \in asks, asks' = asks \ {a},
         UNCHANGED <<project, arrival, count>>
  PROVE  AsksKept' /\ Coming' = Coming \ {a}
BY DEF AsksKept, Coming

LEMMA AsksKeptStep ==
  ASSUME ManageTypeOK, AsksKept, [ManageNext]_managePageVars
  PROVE  AsksKept'
<1>0. \A k, o, f : Sent(k, o, f).n = count + 1 /\ Sent(k, o, f).kind = k
  BY DEF Sent
<1>1. ASSUME UNCHANGED <<asks, count, arrival>>, project' = project \/ project' = Unnamed
      PROVE  AsksKept'
  BY <1>1 DEF AsksKept, Coming
<1>2. CASE UNCHANGED managePageVars
  BY <1>1, <1>2 DEF managePageVars
<1>3. ASSUME NEW p \in Managed, open_project(p) PROVE AsksKept'
  <2>1. /\ project' = p /\ asks' = asks \union loads(p) /\ count' = count + 1
        /\ arrival' = count
    BY <1>3, Zenon DEF open_project
  <2>2. \A a \in loads(p) : a.n = count + 1 /\ a.project = p
    BY DEF loads
  <2>3. count \in Nat /\ \A a \in asks : a.n \in Nat /\ a.n <= count
    BY DEF ManageTypeOK, Ask, AsksKept
  <2>4. \A a \in Coming' : a \in loads(p)
    BY <2>1, <2>3 DEF Coming
  <2> QED
    BY <2>1, <2>2, <2>3, <2>4 DEF AsksKept
<1>4. leave_project => project' = Unnamed /\ UNCHANGED <<asks, count, arrival>>
  BY Zenon DEF leave_project
<1>5. \A tab \in Tab : setTabView(tab) => UNCHANGED <<project, asks, count, arrival>>
  BY Zenon DEF setTabView
<1>6. handleChange => UNCHANGED <<project, asks, count, arrival>>
  BY Zenon DEF handleChange
<1>7. \A text \in SUBSET Managed :
        edit_instructions(text) => UNCHANGED <<project, asks, count, arrival>>
  BY Zenon DEF edit_instructions
<1>8. ASSUME submission_details PROVE AsksKept'
  <2>1. UNCHANGED <<project, arrival>>
    BY <1>8, Zenon DEF submission_details
  <2>2. \/ UNCHANGED <<asks, count>>
        \/ \E from : asks' = asks \union {Sent("patch", project, from)} /\ count' = count + 1
    BY <1>8, Zenon DEF submission_details
  <2>3. CASE UNCHANGED <<asks, count>>
    BY <1>1, <2>1, <2>3
  <2>4. ASSUME NEW from, asks' = asks \union {Sent("patch", project, from)}, count' = count + 1
        PROVE  AsksKept'
    <3>1. Sent("patch", project, from).n = count + 1
          /\ Sent("patch", project, from).kind # "details"
      BY <1>0
    <3> QED
      BY <2>1, <2>4, <3>1, Another
  <2> QED
    BY <2>2, <2>3, <2>4
<1>9. ASSUME PostFormUpdate PROVE AsksKept'
  <2>1. /\ asks' = asks \union {Sent("form", editProjectDetails.of, {})} /\ count' = count + 1
        /\ UNCHANGED <<project, arrival>>
    BY <1>9, Zenon DEF PostFormUpdate
  <2>2. Sent("form", editProjectDetails.of, {}).n = count + 1
        /\ Sent("form", editProjectDetails.of, {}).kind # "details"
    BY <1>0
  <2> QED
    BY <2>1, <2>2, Another
<1>10. \A shown \in BOOLEAN : setShowModal(shown) => UNCHANGED <<project, asks, count, arrival>>
  BY Zenon DEF setShowModal
<1>11. closeModal => UNCHANGED <<project, asks, count, arrival>>
  BY Zenon DEF closeModal
<1>12. \A name \in Managed \union {Unnamed} :
         handleConfirmChange(name) => UNCHANGED <<project, asks, count, arrival>>
  BY Zenon DEF handleConfirmChange
<1>13. ASSUME onSave_delete PROVE AsksKept'
  <2>1. /\ asks' = asks \union {Sent("delete", confirm.name, {})} /\ count' = count + 1
        /\ UNCHANGED <<project, arrival>>
    BY <1>13, Zenon DEF onSave_delete
  <2>2. Sent("delete", confirm.name, {}).n = count + 1
        /\ Sent("delete", confirm.name, {}).kind # "details"
    BY <1>0
  <2> QED
    BY <2>1, <2>2, Another
<1>14. ASSUME NEW a \in asks, NEW ok \in BOOLEAN, answer_project(a, ok) PROVE AsksKept'
  <2>1. asks' = asks \ {a} /\ UNCHANGED <<project, arrival, count>>
    BY <1>14, Zenon DEF answer_project
  <2> QED
    BY <2>1, Fewer
<1>15. ASSUME NEW a \in asks, redirect_home(a) PROVE AsksKept'
  <2>1. project' = Unnamed /\ asks' = {} /\ arrival' = count /\ count' = count
    BY <1>15, Zenon DEF redirect_home
  <2> QED
    BY <2>1 DEF AsksKept, ManageTypeOK
<1> QED
  BY <1>1, <1>2, <1>3, <1>4, <1>5, <1>6, <1>7, <1>8, <1>9, <1>10, <1>11, <1>12, <1>13, <1>14,
     <1>15, Zenon DEF ManageNext

\* Nothing of the form changes.
LEMMA FormStays ==
  ASSUME FormKept, UNCHANGED <<project, tabView, editProjectDetails, values, editor, unsettled,
                              inherited>>, Coming' = Coming
  PROVE  FormKept'
BY DEF FormKept, OnForm, Settled, OwnOrInherited

\* The form is shown anew.
LEMMA FormMounted ==
  ASSUME MountDescription, editProjectDetails' = editProjectDetails,
         Settled' => editProjectDetails.of = project'
  PROVE  FormKept'
<1>1. values'.of = editProjectDetails.of
      /\ values'.per_task_instructions = editProjectDetails.per_task_instructions
  BY DEF MountDescription, Copied
<1>2. editor' = editProjectDetails.per_task_instructions /\ inherited' = editor'
  BY Zenon DEF MountDescription
<1> QED
  BY <1>1, <1>2 DEF FormKept, OwnOrInherited

LEMMA FormKeptStep ==
  ASSUME ManageTypeOK, AsksKept, FormKept, [ManageNext]_managePageVars
  PROVE  FormKept'
<1>0. /\ Unnamed \notin Managed /\ count \in Nat /\ arrival \in Nat
      /\ \A a \in asks : a.n \in Nat /\ a.n <= count /\ a.project \in Managed
      /\ \A d : Copied(d).of = d.of /\ Copied(d).per_task_instructions = d.per_task_instructions
      /\ \A d : Copied(d).typed = FALSE
  BY ManageAssumption DEF ManageTypeOK, AsksKept, Ask, Copied
<1>1. CASE UNCHANGED managePageVars
  BY <1>1, FormStays DEF managePageVars, Coming
<1>2. ASSUME NEW p \in Managed, open_project(p) PROVE FormKept'
  <2>1. /\ project' = p /\ asks' = asks \union loads(p) /\ arrival' = count
        /\ editProjectDetails' = editProjectDetails
    BY <1>2, Zenon DEF open_project
  <2>2. Coming' # {}
    <3>1. PICK a \in loads(p) : a.kind = "details" /\ a.n = count + 1
      BY DEF loads
    <3>2. a \in Coming'
      BY <1>0, <2>1, <3>1 DEF Coming
    <3> QED
      BY <3>2
  <2>3. ~Settled'
    BY <2>2 DEF Settled
  <2>4. CASE project = Unnamed
    <3>1. MountDescription
      BY <1>2, <2>4, Zenon DEF open_project
    <3> QED
      BY <2>1, <2>3, <3>1, FormMounted
  <2>5. CASE project # Unnamed
    <3>1. inherited' = editor /\ UNCHANGED <<tabView, values, editor>>
      BY <1>2, <2>5, Zenon DEF open_project
    <3> QED
      BY <2>1, <2>3, <2>5, <3>1 DEF FormKept, OnForm, OwnOrInherited
  <2> QED
    BY <2>4, <2>5
<1>3. ASSUME leave_project PROVE FormKept'
  <2>1. project' = Unnamed
    BY <1>3, Zenon DEF leave_project
  <2> QED
    BY <2>1 DEF FormKept, OnForm, Settled
<1>4. ASSUME NEW tab \in Tab, setTabView(tab) PROVE FormKept'
  <2>1. UNCHANGED <<project, editProjectDetails, asks, arrival, unsettled>> /\ tabView' = tab
    BY <1>4, Zenon DEF setTabView
  <2>2. Settled' = Settled
    BY <2>1 DEF Settled, Coming
  <2>3. CASE tab = "description"
    <3>1. MountDescription
      BY <1>4, <2>3, Zenon DEF setTabView
    <3> QED
      BY <2>1, <2>2, <3>1, FormMounted DEF FormKept
  <2>4. CASE tab # "description"
    BY <2>1, <2>2, <2>4 DEF FormKept, OnForm
  <2> QED
    BY <2>3, <2>4
<1>5. ASSUME handleChange PROVE FormKept'
  <2>1. /\ values' = [values EXCEPT !.typed = TRUE]
        /\ UNCHANGED <<project, tabView, editProjectDetails, editor, asks, arrival, unsettled,
                       inherited>>
    BY <1>5, Zenon DEF handleChange
  <2>2. values'.of = values.of /\ values'.per_task_instructions = values.per_task_instructions
    BY <2>1 DEF ManageTypeOK
  <2> QED
    BY <2>1, <2>2 DEF FormKept, OnForm, Settled, Coming, OwnOrInherited
<1>6. ASSUME NEW text \in SUBSET Managed, edit_instructions(text) PROVE FormKept'
  <2>1. /\ OnForm /\ text \in {editor \union {project}, {}} /\ editor' = text
        /\ values' = [values EXCEPT !.per_task_instructions = text]
        /\ UNCHANGED <<project, tabView, editProjectDetails, asks, arrival, unsettled, inherited>>
    BY <1>6, Zenon DEF edit_instructions
  <2>2. values'.of = values.of /\ values'.per_task_instructions = text
    BY <2>1 DEF ManageTypeOK
  <2>3. text \subseteq OwnOrInherited
    BY <2>1 DEF FormKept, OwnOrInherited
  <2> QED
    BY <2>1, <2>2, <2>3 DEF FormKept, OnForm, Settled, Coming, OwnOrInherited
<1>7. ASSUME submission_details PROVE FormKept'
  <2> DEFINE d == [of |-> values.of, per_task_instructions |-> values.per_task_instructions]
  <2>1. /\ OnForm /\ editProjectDetails' = d /\ Synchronised(d)
        /\ UNCHANGED <<project, tabView, arrival, unsettled, inherited>>
    BY <1>7, Zenon DEF submission_details
  <2>2. d.of = values.of /\ d.per_task_instructions = values.per_task_instructions
    OBVIOUS
  <2> HIDE DEF d
  <2>3. values' = Copied(d) /\ editor' = IF editor = {} THEN d.per_task_instructions ELSE editor
    BY <2>1, Zenon DEF Synchronised
  <2>4. Coming' = Coming
    <3>1. \/ asks' = asks
          \/ \E from : asks' = asks \union {Sent("patch", project, from)}
      BY <1>7, Zenon DEF submission_details
    <3>2. \A k, o, f : Sent(k, o, f).kind = k
      BY DEF Sent
    <3> QED
      BY <2>1, <3>1, <3>2 DEF Coming
  <2> QED
    BY <1>0, <2>1, <2>2, <2>3, <2>4 DEF FormKept, OnForm, Settled, OwnOrInherited
<1>8. ASSUME PostFormUpdate PROVE FormKept'
  <2>1. /\ asks' = asks \union {Sent("form", editProjectDetails.of, {})}
        /\ UNCHANGED <<project, tabView, editProjectDetails, values, editor, unsettled, inherited,
                       arrival>>
    BY <1>8, Zenon DEF PostFormUpdate
  <2>2. Sent("form", editProjectDetails.of, {}).kind = "form"
    BY DEF Sent
  <2>3. Coming' = Coming
    BY <2>1, <2>2 DEF Coming
  <2> QED
    BY <2>1, <2>3, FormStays
<1>9. ASSUME NEW shown \in BOOLEAN, setShowModal(shown) PROVE FormKept'
  <2>1. UNCHANGED <<project, tabView, editProjectDetails, values, editor, unsettled, inherited,
                    arrival, asks>>
    BY <1>9, Zenon DEF setShowModal
  <2> QED
    BY <2>1, FormStays DEF Coming
<1>10. ASSUME closeModal PROVE FormKept'
  <2>1. UNCHANGED <<project, tabView, editProjectDetails, values, editor, unsettled, inherited,
                    arrival, asks>>
    BY <1>10, Zenon DEF closeModal
  <2> QED
    BY <2>1, FormStays DEF Coming
<1>11. ASSUME NEW name \in Managed \union {Unnamed}, handleConfirmChange(name) PROVE FormKept'
  <2>1. UNCHANGED <<project, tabView, editProjectDetails, values, editor, unsettled, inherited,
                    arrival, asks>>
    BY <1>11, Zenon DEF handleConfirmChange
  <2> QED
    BY <2>1, FormStays DEF Coming
<1>12. ASSUME onSave_delete PROVE FormKept'
  <2>1. /\ asks' = asks \union {Sent("delete", confirm.name, {})}
        /\ UNCHANGED <<project, tabView, editProjectDetails, values, editor, unsettled, inherited,
                       arrival>>
    BY <1>12, Zenon DEF onSave_delete
  <2>2. Sent("delete", confirm.name, {}).kind = "delete"
    BY DEF Sent
  <2>3. Coming' = Coming
    BY <2>1, <2>2 DEF Coming
  <2> QED
    BY <2>1, <2>3, FormStays
<1>13. ASSUME NEW a \in asks, NEW ok \in BOOLEAN, answer_project(a, ok) PROVE FormKept'
  <2>1. /\ asks' = asks \ {a} /\ UNCHANGED <<project, tabView, arrival>>
        /\ \/ GetIndividualProjectDetails(a, ok)
           \/ /\ a.kind # "details"
              /\ UNCHANGED <<editProjectDetails, values, editor, unsettled, inherited>>
    BY <1>13 DEF answer_project, PatchProjectDetails, FormUpdated
  <2>2. CASE a.kind # "details"
           /\ UNCHANGED <<editProjectDetails, values, editor, unsettled, inherited>>
    <3>1. Coming' = Coming
      BY <2>1, <2>2 DEF Coming
    <3> QED
      BY <2>1, <2>2, <3>1, FormStays
  <2>3. ASSUME GetIndividualProjectDetails(a, ok) PROVE FormKept'
    <3> DEFINE d == DetailsOf(a.project)
               own == a.n = arrival + 1
    <3>1. /\ a.kind = "details"
          /\ IF ok THEN editProjectDetails' = d /\ Synchronised(d)
                   ELSE UNCHANGED <<editProjectDetails, values, editor>>
      BY <2>3, Zenon DEF GetIndividualProjectDetails
    <3>2. /\ own => unsettled' = ~ok /\ inherited' = inherited
          /\ ~own => unsettled' = (unsettled \/ ok) /\ inherited' = inherited \union {a.project}
      BY <2>3, Zenon DEF GetIndividualProjectDetails
    <3>3. d.of = a.project /\ d.per_task_instructions \subseteq {a.project}
      BY DEF DetailsOf
    <3> HIDE DEF d
    <3>4. Coming' = Coming \ {a} /\ OnForm' = OnForm
      BY <2>1 DEF Coming, OnForm
    <3>5. project # Unnamed /\ own => a.project = project
      <4>1. own => a \in Coming
        BY <1>0, <3>1 DEF Coming
      <4> QED
        BY <4>1 DEF AsksKept
    <3>6. project # Unnamed /\ ~own => a \notin Coming
      BY DEF AsksKept
    <3>7. project # Unnamed =>
            inherited \subseteq OwnOrInherited' /\ a.project \in OwnOrInherited'
            /\ OwnOrInherited \subseteq OwnOrInherited'
      BY <2>1, <3>2, <3>5 DEF OwnOrInherited
    <3>8. CASE ok
      <4>1. editProjectDetails' = d /\ Synchronised(d)
        BY <3>1, <3>8
      <4>2. ASSUME OnForm
            PROVE  /\ values'.of = editProjectDetails'.of
                   /\ editor' \subseteq OwnOrInherited'
                   /\ editor' = {} => values'.per_task_instructions = {}
                   /\ values'.per_task_instructions \subseteq OwnOrInherited'
        <5>1. /\ values' = Copied(d)
              /\ editor' = IF editor = {} THEN d.per_task_instructions ELSE editor
          BY <4>1, <4>2, Zenon DEF Synchronised
        <5>2. editor \subseteq OwnOrInherited /\ project # Unnamed
          BY <4>2 DEF FormKept, OnForm
        <5> QED
          BY <1>0, <3>3, <3>7, <4>1, <5>1, <5>2
      <4>3. Settled' => editProjectDetails'.of = project'
        <5>1. own \/ ~Settled'
          BY <3>2, <3>8 DEF Settled
        <5> QED
          BY <2>1, <3>3, <3>5, <4>1, <5>1 DEF Settled
      <4> QED
        BY <3>4, <4>2, <4>3 DEF FormKept
    <3>9. CASE ~ok
      <4>1. UNCHANGED <<editProjectDetails, values, editor>>
        BY <3>1, <3>9
      <4>2. Settled' => Settled
        <5>1. Settled' => ~own /\ ~unsettled
          BY <3>2, <3>9 DEF Settled
        <5> QED
          BY <2>1, <3>4, <3>6, <5>1 DEF Settled
      <4>3. OnForm => project # Unnamed
        BY DEF OnForm
      <4> QED
        BY <2>1, <3>4, <3>7, <4>1, <4>2, <4>3 DEF FormKept
    <3> QED
      BY <3>8, <3>9
  <2> QED
    BY <2>1, <2>2, <2>3
<1>14. ASSUME NEW a \in asks, redirect_home(a) PROVE FormKept'
  <2>1. project' = Unnamed
    BY <1>14, Zenon DEF redirect_home
  <2> QED
    BY <2>1 DEF FormKept, OnForm, Settled
<1> QED
  BY <1>1, <1>2, <1>3, <1>4, <1>5, <1>6, <1>7, <1>8, <1>9, <1>10, <1>11, <1>12, <1>13, <1>14
     DEF ManageNext

\* What is asked of a request when it is sent.
Fitting_ask(a) ==
  /\ a.kind \in {"form", "delete"} => a.of = a.project \/ a.unsettled
  /\ a.kind = "patch" => a.from \subseteq {a.project} \union a.inherited \/ a.unsettled

LEMMA SentWhenSettled ==
  ASSUME ManageTypeOK, FormKept, project # Unnamed, NEW kind, NEW of, NEW from,
         Settled /\ kind \in {"form", "delete"} => of = project,
         Settled /\ kind = "patch" => from \subseteq OwnOrInherited
  PROVE  Fitting_ask(Sent(kind, of, from))
<1> DEFINE a == Sent(kind, of, from)
<1>1. /\ a.kind = kind /\ a.project = project /\ a.of = of /\ a.from = from
      /\ a.inherited = inherited
  BY DEF Sent
<1>2. a.unsettled = (unsettled \/ \E b \in asks : b.kind = "details" /\ b.n > arrival)
  BY DEF Sent
<1>3. ~Settled => a.unsettled
  BY <1>2 DEF Settled, Coming
<1> QED
  BY <1>1, <1>3 DEF Fitting_ask, OwnOrInherited

LEMMA SentFitsStep ==
  ASSUME ManageTypeOK, DialogKept, FormKept, SentFits, [ManageNext]_managePageVars
  PROVE  SentFits'
<1>1. ASSUME \A a \in asks' : a \in asks \/ Fitting_ask(a) PROVE SentFits'
  BY <1>1 DEF SentFits, Fitting_ask
<1>2. CASE UNCHANGED managePageVars
  BY <1>1, <1>2 DEF managePageVars
<1>3. ASSUME NEW p \in Managed, open_project(p) PROVE SentFits'
  <2>1. asks' = asks \union loads(p)
    BY <1>3, Zenon DEF open_project
  <2>2. \A a \in loads(p) : Fitting_ask(a)
    BY DEF loads, Fitting_ask
  <2> QED
    BY <1>1, <2>1, <2>2
<1>4. ASSUME submission_details PROVE SentFits'
  <2> DEFINE d == [of |-> values.of, per_task_instructions |-> values.per_task_instructions]
             from == IF d # editProjectDetails THEN d.per_task_instructions ELSE {}
  <2>1. OnForm /\ (asks' = asks \/ asks' = asks \union {Sent("patch", project, from)})
    BY <1>4, Zenon DEF submission_details
  <2>2. Settled => from \subseteq OwnOrInherited
    BY <2>1 DEF FormKept
  <2> HIDE DEF from
  <2>3. Fitting_ask(Sent("patch", project, from))
    BY <2>1, <2>2, SentWhenSettled DEF OnForm
  <2> QED
    BY <1>1, <2>1, <2>3
<1>5. ASSUME PostFormUpdate PROVE SentFits'
  <2>1. project # Unnamed /\ asks' = asks \union {Sent("form", editProjectDetails.of, {})}
    BY <1>5, Zenon DEF PostFormUpdate
  <2>2. Fitting_ask(Sent("form", editProjectDetails.of, {}))
    BY <2>1, SentWhenSettled DEF FormKept
  <2> QED
    BY <1>1, <2>1, <2>2
<1>6. ASSUME onSave_delete PROVE SentFits'
  <2>1. confirm.showModal /\ confirmed
        /\ asks' = asks \union {Sent("delete", confirm.name, {})}
    BY <1>6, Zenon DEF onSave_delete
  <2>2. confirm.name = editProjectDetails.of /\ project # Unnamed
    BY <2>1 DEF confirmed, DialogKept
  <2>3. Fitting_ask(Sent("delete", confirm.name, {}))
    BY <2>2, SentWhenSettled DEF FormKept
  <2> QED
    BY <1>1, <2>1, <2>3
<1>7. ASSUME asks' \subseteq asks PROVE SentFits'
  BY <1>1, <1>7
<1>8. leave_project \/ handleChange \/ closeModal => asks' = asks
  BY Zenon DEF leave_project, handleChange, closeModal
<1>9. \A tab \in Tab : setTabView(tab) => asks' = asks
  BY Zenon DEF setTabView
<1>10. \A text \in SUBSET Managed : edit_instructions(text) => asks' = asks
  BY Zenon DEF edit_instructions
<1>11. \A shown \in BOOLEAN : setShowModal(shown) => asks' = asks
  BY Zenon DEF setShowModal
<1>12. \A name \in Managed \union {Unnamed} : handleConfirmChange(name) => asks' = asks
  BY Zenon DEF handleConfirmChange
<1>13. \A a \in asks, ok \in BOOLEAN : answer_project(a, ok) => asks' \subseteq asks
  BY DEF answer_project
<1>14. \A a \in asks : redirect_home(a) => asks' \subseteq asks
  BY DEF redirect_home
<1>15. \A S : S = asks => S \subseteq asks
  OBVIOUS
<1> QED
  BY <1>2, <1>3, <1>4, <1>5, <1>6, <1>7, <1>8, <1>9, <1>10, <1>11, <1>12, <1>13, <1>14, <1>15,
     Zenon DEF ManageNext

ManageKept == ManageTypeOK /\ DialogKept /\ AsksKept /\ FormKept /\ SentFits

LEMMA ManageStart == ManageInit => ManageKept
<1>1. ManageInit => ManageTypeOK
  <2>1. /\ Closed \in [showModal : BOOLEAN, name : Managed \union {Unnamed}, enabled : BOOLEAN]
        /\ NotLoading \in [editProjectDetailsLoading : BOOLEAN, formUpdateLoading : BOOLEAN]
    BY DEF Closed, NotLoading
  <2>2. "description" \in Tab /\ 0 \in Nat /\ {} \in SUBSET Managed
        /\ Unnamed \in Managed \union {Unnamed} /\ {} \subseteq Ask /\ FALSE \in BOOLEAN
    BY DEF Tab
  <2> QED
    BY <2>1, <2>2, DetailsTypes, Zenon DEF ManageInit, ManageTypeOK
<1>2. ManageInit => DialogKept /\ AsksKept /\ SentFits
  BY DEF ManageInit, DialogKept, AsksKept, SentFits, Closed, Coming
<1>3. ManageInit => FormKept
  BY DEF ManageInit, FormKept, OnForm, Settled
<1> QED
  BY <1>1, <1>2, <1>3 DEF ManageKept

LEMMA ManageKeptStep ==
  ASSUME ManageKept, [ManageNext]_managePageVars
  PROVE  ManageKept'
BY ManageTypeStep, DialogStep, AsksKeptStep, FormKeptStep, SentFitsStep DEF ManageKept

\* Every variable of the page that edits a project keeps its type.
THEOREM ManageTypeCorrect == ManageSpec => []ManageTypeOK
<1>1. ManageKept => ManageTypeOK
  BY DEF ManageKept
<1> QED
  BY <1>1, ManageStart, ManageKeptStep, PTL DEF ManageSpec

\* What is sent to a project was meant for it, unless its details were missing or not its own.
THEOREM SentFitsHolds == ManageSpec => []SentFits
<1>1. ManageKept => SentFits
  BY DEF ManageKept
<1> QED
  BY <1>1, ManageStart, ManageKeptStep, PTL DEF ManageSpec

-----------------------------------------------------------------------------
(* The page of the users. *)

LEMMA PageTypes ==
  ASSUME ManageUsersTypeOK, NEW q \in Query
  PROVE  /\ get_paginated_users(q) \subseteq UserRow
         /\ \A i \in DOMAIN Found[q.search] : Found[q.search][i] \in Account
<1>1. q.search \in Text
  BY UsersAssumption DEF Query, NoSuch
<1>2. \A i \in DOMAIN Found[q.search] : Found[q.search][i] \in Account
  BY <1>1, UsersAssumption
<1>3. \A u \in Account : Row_of(u) \in UserRow
  BY DEF Row_of, UserRow, ManageUsersTypeOK
<1> QED
  BY <1>2, <1>3 DEF get_paginated_users

LEMMA NewCall ==
  ASSUME NEW n \in Nat, NEW kind \in {"list", "patch"}, NEW q \in Query, NEW u \in UserRow
  PROVE  [n |-> n, kind |-> kind, query |-> q, user |-> u, rows |-> {}, done |-> FALSE,
          ok |-> TRUE] \in Call
BY DEF Call

LEMMA ListCallType ==
  ASSUME ManageUsersTypeOK, NEW search \in Text, NEW page \in Nat, GetUserList(search, page)
  PROVE  /\ calls' \subseteq Call /\ called' \in Nat /\ userListLoading' \in BOOLEAN
         /\ \E c \in Call : /\ calls' = calls \union {c} /\ c.kind = "list" /\ c.n = called + 1
                   /\ c.query = [search |-> search, page |-> page] /\ ~c.done
         /\ called' = called + 1
<1> DEFINE any == CHOOSE r \in UserRow : TRUE
           c == [n |-> called + 1, kind |-> "list", query |-> [search |-> search, page |-> page],
                 user |-> any, rows |-> {}, done |-> FALSE, ok |-> TRUE]
<1>1. any \in UserRow
  <2>1. PICK a \in Account, r \in Role : TRUE
    BY UsersAssumption
  <2>2. [id |-> a, role |-> r] \in UserRow
    BY DEF UserRow
  <2> QED
    BY <2>2
<1>2. called + 1 \in Nat
  BY DEF ManageUsersTypeOK
<1>3. [search |-> search, page |-> page] \in Query
  BY DEF Query
<1>4. c \in Call
  BY <1>1, <1>2, <1>3, NewCall, Zenon
<1>5. /\ c.kind = "list" /\ c.n = called + 1
      /\ c.query = [search |-> search, page |-> page] /\ ~c.done
  OBVIOUS
<1>6. calls' = calls \union {c} /\ called' = called + 1 /\ userListLoading' = TRUE
  BY Zenon DEF GetUserList
<1> HIDE DEF c
<1>7. userListLoading' \in BOOLEAN
  BY <1>6, Zenon
<1>8. calls' \subseteq Call
  BY <1>4, <1>6 DEF ManageUsersTypeOK
<1>9. called' \in Nat
  BY <1>2, <1>6
<1> QED
  BY <1>5, <1>6, <1>7, <1>8, <1>9, Zenon

LEMMA UsersTypeStep ==
  ASSUME ManageUsersTypeOK, [UsersNext]_manageUsersVars
  PROVE  ManageUsersTypeOK'
<1> USE DEF ManageUsersTypeOK
<1>0. /\ calls \subseteq Call /\ \A c : calls \ {c} \subseteq Call
      /\ userList \in [of : Query, results : SUBSET UserRow]
      /\ NoText \in Text /\ \A S : Overlap(S) \subseteq {"overlap", "order", "lost", "foreign"}
  BY UsersAssumption DEF Overlap
<1>1. CASE UNCHANGED manageUsersVars
  BY <1>1 DEF manageUsersVars
<1>2. ASSUME open_users PROVE ManageUsersTypeOK'
  <2>1. GetUserList(NoText, 0) /\ mounted' = TRUE
    BY <1>2, Zenon DEF open_users
  <2>2. calls' \subseteq Call /\ called' \in Nat /\ userListLoading' \in BOOLEAN
    BY <1>0, <2>1, ListCallType
  <2>3. mounted' \in BOOLEAN
    BY <2>1, Zenon
  <2>4. /\ input' \in Text \union {"none"} /\ filter' \in Text /\ pageIndex' \in Nat
        /\ causes' \subseteq {"overlap", "order", "lost", "foreign"}
    BY <1>0, <1>2 DEF open_users
  <2> QED
    BY <1>2, <2>2, <2>3, <2>4, Zenon DEF open_users
<1>3. ASSUME leave_users PROVE ManageUsersTypeOK'
  <2>1. mounted' \in BOOLEAN
    BY <1>3, Zenon DEF leave_users
  <2>2. input' \in Text \union {"none"}
    BY <1>3 DEF leave_users
  <2> QED
    BY <1>3, <2>1, <2>2, Zenon DEF leave_users
<1>4. ASSUME NEW t \in Text, handleChangeData(t) PROVE ManageUsersTypeOK'
  BY <1>4, Zenon DEF handleChangeData
<1>5. ASSUME setFilter PROVE ManageUsersTypeOK'
  <2>1. input \in Text /\ GetUserList(input, pageIndex)
    BY <1>5 DEF setFilter
  <2>2. calls' \subseteq Call /\ called' \in Nat /\ userListLoading' \in BOOLEAN
    BY <2>1, ListCallType
  <2>3. /\ input' \in Text \union {"none"} /\ filter' \in Text
        /\ causes' \subseteq {"overlap", "order", "lost", "foreign"}
    BY <1>0, <1>5, <2>1 DEF setFilter
  <2> QED
    BY <1>5, <2>2, <2>3, Zenon DEF setFilter
<1>6. ASSUME NEW p \in 0..(page_count - 1), setPageIndex(p) PROVE ManageUsersTypeOK'
  <2>1. p \in Nat
    OBVIOUS
  <2>2. calls' \subseteq Call /\ called' \in Nat /\ userListLoading' \in BOOLEAN
    BY <1>6, <2>1, ListCallType DEF setPageIndex
  <2>3. pageIndex' \in Nat /\ causes' \subseteq {"overlap", "order", "lost", "foreign"}
    BY <1>0, <1>6, <2>1 DEF setPageIndex
  <2> QED
    BY <1>6, <2>2, <2>3, Zenon DEF setPageIndex
<1>7. ASSUME NEW row \in userList.results, NEW granted \in Role, updateRole(row, granted)
      PROVE  ManageUsersTypeOK'
  <2> DEFINE c == [n |-> called + 1, kind |-> "patch", query |-> NoSuch,
                   user |-> [id |-> row.id, role |-> granted], rows |-> {},
                   done |-> FALSE, ok |-> TRUE]
  <2>1. [id |-> row.id, role |-> granted] \in UserRow
    BY <1>0 DEF UserRow
  <2>2. c \in Call
    <3>1. called + 1 \in Nat /\ NoSuch \in Query
      BY DEF Query
    <3> QED
      BY <2>1, <3>1, NewCall
  <2>3. calls' = calls \union {c}
    BY <1>7, Zenon DEF updateRole
  <2> HIDE DEF c
  <2>4. calls' \subseteq Call
    BY <2>2, <2>3
  <2>5. called' \in Nat
    BY <1>7 DEF updateRole
  <2>6. causes' \subseteq {"overlap", "order", "lost", "foreign"}
    BY <1>0, <1>7 DEF updateRole
  <2> QED
    BY <1>7, <2>4, <2>5, <2>6, Zenon DEF updateRole
<1>8. ASSUME NEW c \in calls, NEW ok \in BOOLEAN, read_users(c, ok) PROVE ManageUsersTypeOK'
  <2>1. c \in Call
    BY <1>0
  <2>2. get_paginated_users(c.query) \subseteq UserRow
    BY <2>1, PageTypes DEF Call
  <2>3. [c EXCEPT !.done = TRUE, !.ok = ok, !.rows = get_paginated_users(c.query)] \in Call
    BY <2>1, <2>2 DEF Call
  <2>4. calls' \subseteq Call
    BY <1>0, <1>8, <2>3 DEF read_users, Executed
  <2> QED
    BY <1>8, <2>4, Zenon DEF read_users
<1>9. ASSUME NEW c \in calls, NEW applied \in BOOLEAN, NEW ok \in BOOLEAN,
             update_existing_user(c, applied, ok)
      PROVE  ManageUsersTypeOK'
  <2>1. c \in Call
    BY <1>0
  <2>2. [c EXCEPT !.done = TRUE, !.ok = ok] \in Call
    BY <2>1 DEF Call
  <2>3. calls' \subseteq Call
    BY <1>0, <1>9, <2>2 DEF update_existing_user, Executed
  <2>4. roles' \in [Account -> Role]
    BY <1>9, <2>1 DEF update_existing_user, Call, UserRow
  <2>5. causes' \subseteq {"overlap", "order", "lost", "foreign"}
    BY <1>9 DEF update_existing_user
  <2> QED
    BY <1>9, <2>3, <2>4, <2>5, Zenon DEF update_existing_user
<1>10. ASSUME NEW c \in calls, SetUserList(c) PROVE ManageUsersTypeOK'
  <2>1. userList' \in [of : Query, results : SUBSET UserRow]
    BY <1>0, <1>10 DEF SetUserList, Call
  <2>2. causes' \subseteq {"overlap", "order", "lost", "foreign"}
    BY <1>10 DEF SetUserList
  <2>3. userListLoading' \in BOOLEAN
    BY <1>10, Zenon DEF SetUserList
  <2> QED
    BY <1>0, <1>10, <2>1, <2>2, <2>3, Zenon DEF SetUserList
<1>11. ASSUME NEW c \in calls, UpdateUserRole(c) PROVE ManageUsersTypeOK'
  <2>1. c.user \in UserRow
    BY <1>0 DEF Call
  <2>2. UpdateUserList(c.user) \in [of : Query, results : SUBSET UserRow]
    BY <1>0, <2>1 DEF UpdateUserList
  <2>3. userList' \in [of : Query, results : SUBSET UserRow]
    BY <1>11, <2>2 DEF UpdateUserRole
  <2> QED
    BY <1>0, <1>11, <2>3, Zenon DEF UpdateUserRole
<1>12. ASSUME NEW u \in Account, NEW granted \in Role, other_admin(u, granted)
       PROVE  ManageUsersTypeOK'
  <2>1. /\ roles' \in [Account -> Role] /\ foreign' \in Nat
        /\ causes' \subseteq {"overlap", "order", "lost", "foreign"}
    BY <1>12 DEF other_admin
  <2> QED
    BY <1>12, <2>1, Zenon DEF other_admin
<1> HIDE DEF ManageUsersTypeOK
<1> QED
  BY <1>1, <1>2, <1>3, <1>4, <1>5, <1>6, <1>7, <1>8, <1>9, <1>10, <1>11, <1>12 DEF UsersNext

-----------------------------------------------------------------------------
(* ListExact: while nothing has gone astray, at most one change of role is under way, then  *)
(* without a list; and the only list under way is the one that is asked for.                *)

Asked == [search |-> filter, page |-> pageIndex]

Exact(results) == userList.of = Asked /\ results = get_paginated_users(Asked)

ListKept ==
  /\ \A c, d \in calls : c.n <= called /\ (c.n = d.n => c = d)
  /\ mounted /\ causes = {} =>
       /\ Patches # {} => calls \subseteq Patches /\ \A c, d \in Patches : c = d
       /\ Patches = {} => \A c \in calls : calls = {c} =>
            c.query = Asked /\ (c.done /\ c.ok => c.rows = get_paginated_users(Asked))
       /\ \A c \in Patches : IF c.done /\ c.ok THEN Exact(UpdateUserList(c.user).results)
                             ELSE Exact(userList.results)
       /\ calls = {} => Exact(userList.results)

\* The page of the table follows the roles.
LEMMA RolesFollow ==
  ASSUME ManageUsersTypeOK, NEW u \in UserRow, roles' = [roles EXCEPT ![u.id] = u.role],
         NEW q \in Query, userList.results = get_paginated_users(q)
  PROVE  UpdateUserList(u).results = get_paginated_users(q)'
<1> DEFINE us == Found[q.search]
           I == {k \in DOMAIN us : /\ q.page * results_per_page < k
                                   /\ k <= q.page * results_per_page + results_per_page}
<1>1. \A i \in I : us[i] \in Account
  BY PageTypes
<1>2. userList.results = {Row_of(us[i]) : i \in I} /\ get_paginated_users(q)' = {Row_of(us[i])' : i \in I}
  BY DEF get_paginated_users
<1>3. UpdateUserList(u).results = {IF r.id = u.id THEN u ELSE r : r \in userList.results}
  BY DEF UpdateUserList, ManageUsersTypeOK
<1>4. \A a \in Account : Row_of(a)' = IF Row_of(a).id = u.id THEN u ELSE Row_of(a)
  BY DEF Row_of, UserRow, ManageUsersTypeOK
<1> HIDE DEF us, I
<1>5. UpdateUserList(u).results = {IF Row_of(us[i]).id = u.id THEN u ELSE Row_of(us[i]) : i \in I}
  BY <1>2, <1>3
<1> QED
  BY <1>1, <1>2, <1>4, <1>5

\* A call of a list is asked for: what holds of it whatever page asks.
LEMMA AskKept ==
  ASSUME ManageUsersTypeOK, ListKept, mounted', NEW search \in Text, NEW page \in Nat,
         GetUserList(search, page), filter' = search, pageIndex' = page,
         causes' = {} => Patches = {}
  PROVE  ListKept'
<1>1. PICK c \in Call : /\ calls' = calls \union {c} /\ c.kind = "list" /\ c.n = called + 1
                        /\ c.query = [search |-> search, page |-> page] /\ ~c.done
                        /\ called' = called + 1
  BY ListCallType
<1>2. called \in Nat /\ calls \subseteq Call /\ \A d \in calls : d.n \in Nat /\ d.n <= called
  BY DEF ManageUsersTypeOK, ListKept, Call
<1>3. c \notin calls
  BY <1>1, <1>2
<1>4. \A a, b \in calls' : a.n <= called' /\ (a.n = b.n => a = b)
  BY <1>1, <1>2 DEF ListKept
<1>5. ASSUME causes' = {} PROVE Patches' = {}
  BY <1>1, <1>5 DEF Patches
<1>6. \A d \in calls' : calls' = {d} => d = c
  BY <1>1, <1>3
<1>7. Asked' = c.query
  BY <1>1 DEF Asked
<1>8. calls' # {}
  BY <1>1
<1> QED
  BY <1>1, <1>4, <1>5, <1>6, <1>7, <1>8 DEF ListKept

LEMMA ListKeptStep ==
  ASSUME ManageUsersTypeOK, ListKept, [UsersNext]_manageUsersVars
  PROVE  ListKept'
<1>0. /\ called \in Nat /\ \A c \in calls : c \in Call /\ c.n \in Nat /\ c.n <= called
      /\ \A c, d \in calls : c.n = d.n => c = d
      /\ filter \in Text /\ pageIndex \in Nat /\ NoText \in Text /\ Asked \in Query
  BY UsersAssumption DEF ManageUsersTypeOK, ListKept, Call, Asked, Query
<1>1. CASE UNCHANGED manageUsersVars
  BY <1>1 DEF manageUsersVars, ListKept, Patches, Asked, Exact, UpdateUserList,
              get_paginated_users, Row_of
<1>2. ASSUME open_users PROVE ListKept'
  <2>1. /\ mounted' /\ GetUserList(NoText, 0) /\ filter' = NoText /\ pageIndex' = 0
        /\ causes' = IF calls = {} THEN {} ELSE causes \union Overlap(Patches)
    BY <1>2, Zenon DEF open_users
  <2>2. causes' = {} => Patches = {}
    BY <2>1 DEF Overlap, Patches
  <2> QED
    BY <1>0, <2>1, <2>2, AskKept
<1>3. ASSUME leave_users PROVE ListKept'
  <2>1. ~mounted' /\ calls' = calls /\ called' = called
    BY <1>3, Zenon DEF leave_users
  <2> QED
    BY <1>0, <2>1 DEF ListKept
<1>4. ASSUME NEW t \in Text, handleChangeData(t) PROVE ListKept'
  <2>1. UNCHANGED <<roles, mounted, filter, pageIndex, userList, calls, called, causes>>
    BY <1>4, Zenon DEF handleChangeData
  <2> QED
    BY <2>1 DEF ListKept, Patches, Asked, Exact, UpdateUserList, get_paginated_users, Row_of
<1>5. ASSUME setFilter PROVE ListKept'
  <2>1. /\ mounted' /\ GetUserList(input, pageIndex) /\ filter' = input
        /\ pageIndex' = pageIndex /\ causes' = causes \union Overlap(Patches)
    BY <1>5, Zenon DEF setFilter
  <2>2. input \in Text
    BY <1>5 DEF setFilter, ManageUsersTypeOK
  <2>3. causes' = {} => Patches = {}
    BY <2>1 DEF Overlap
  <2> QED
    BY <1>0, <2>1, <2>2, <2>3, AskKept
<1>6. ASSUME NEW p \in 0..(page_count - 1), setPageIndex(p) PROVE ListKept'
  <2>1. /\ mounted' /\ GetUserList(filter, p) /\ filter' = filter
        /\ pageIndex' = p /\ causes' = causes \union Overlap(Patches)
    BY <1>6, Zenon DEF setPageIndex
  <2>2. p \in Nat
    OBVIOUS
  <2>3. causes' = {} => Patches = {}
    BY <2>1 DEF Overlap
  <2> QED
    BY <1>0, <2>1, <2>2, <2>3, AskKept
<1>7. ASSUME NEW row \in userList.results, NEW granted \in Role, updateRole(row, granted)
      PROVE  ListKept'
  <2> DEFINE d == [n |-> called + 1, kind |-> "patch", query |-> NoSuch,
                   user |-> [id |-> row.id, role |-> granted], rows |-> {},
                   done |-> FALSE, ok |-> TRUE]
  <2>1. d.n = called + 1 /\ d.kind = "patch" /\ ~d.done
    OBVIOUS
  <2>2. /\ calls' = calls \union {d} /\ called' = called + 1
        /\ causes' = causes \union Overlap(calls) /\ mounted
        /\ UNCHANGED <<roles, filter, pageIndex, userList>>
    BY <1>7, Zenon DEF updateRole
  <2> HIDE DEF d
  <2>3. \A a, b \in calls' : a.n <= called' /\ (a.n = b.n => a = b)
    BY <1>0, <2>1, <2>2
  <2>4. ASSUME causes' = {}
        PROVE  /\ calls' = {d} /\ Patches' = {d} /\ Exact(userList.results)'
    <3>1. calls = {} /\ causes = {}
      BY <2>2, <2>4 DEF Overlap
    <3>2. Exact(userList.results)
      BY <2>2, <3>1 DEF ListKept
    <3> QED
      BY <2>1, <2>2, <3>1, <3>2 DEF Patches, Exact, Asked, get_paginated_users, Row_of
  <2> QED
    BY <2>1, <2>3, <2>4 DEF ListKept
<1>8. ASSUME NEW c \in calls, NEW ok \in BOOLEAN, read_users(c, ok) PROVE ListKept'
  <2> DEFINE d == [c EXCEPT !.done = TRUE, !.ok = ok, !.rows = get_paginated_users(c.query)]
  <2>1. /\ calls' = (calls \ {c}) \union {d} /\ c.kind = "list"
        /\ UNCHANGED <<roles, mounted, filter, pageIndex, userList, called, causes>>
    BY <1>8, Zenon DEF read_users, Executed
  <2>2. /\ d.n = c.n /\ d.kind = "list" /\ d.query = c.query
        /\ d.rows = get_paginated_users(c.query)
    BY <1>0, <2>1 DEF Call
  <2> HIDE DEF d
  <2>3. \A a, b \in calls' : a.n <= called' /\ (a.n = b.n => a = b)
    BY <1>0, <2>1, <2>2
  <2>4. ASSUME mounted, causes = {}
        PROVE  /\ Patches' = {} /\ calls' # {}
               /\ calls' = {d} => d.query = Asked'
               /\ \A e \in calls' : calls' = {e} => e = d
               /\ d.query = Asked => d.rows = get_paginated_users(Asked)'
    <3>1. Patches = {}
      BY <2>1, <2>4 DEF ListKept, Patches
    <3>2. Patches' = {}
      BY <2>1, <2>2, <3>1 DEF Patches
    <3>3. calls' = {d} => calls = {c}
      BY <1>0, <2>1, <2>2
    <3>4. calls' = {d} => d.query = Asked'
      BY <2>1, <2>2, <2>4, <3>1, <3>3 DEF ListKept, Asked
    <3>5. d.query = Asked => d.rows = get_paginated_users(Asked)'
      BY <2>1, <2>2 DEF Asked, get_paginated_users, Row_of
    <3> QED
      BY <2>1, <3>2, <3>4, <3>5
  <2>5. Asked' = Asked
    BY <2>1 DEF Asked
  <2> QED
    BY <2>1, <2>3, <2>4, <2>5 DEF ListKept
<1>9. ASSUME NEW c \in calls, NEW applied \in BOOLEAN, NEW ok \in BOOLEAN,
             update_existing_user(c, applied, ok)
      PROVE  ListKept'
  <2> DEFINE d == [c EXCEPT !.done = TRUE, !.ok = ok]
  <2>1. /\ calls' = (calls \ {c}) \union {d} /\ c.kind = "patch" /\ ~c.done
        /\ UNCHANGED <<mounted, filter, pageIndex, userList, called>>
        /\ ok => applied
        /\ roles' = IF applied THEN [roles EXCEPT ![c.user.id] = c.user.role] ELSE roles
        /\ causes' = IF applied /\ ~ok THEN causes \union {"lost"} ELSE causes
    BY <1>9, Zenon DEF update_existing_user, Executed
  <2>2. /\ d.n = c.n /\ d.kind = "patch" /\ d.user = c.user /\ d.done /\ (d.ok <=> ok)
    BY <1>0, <2>1 DEF Call
  <2> HIDE DEF d
  <2>3. \A a, b \in calls' : a.n <= called' /\ (a.n = b.n => a = b)
    BY <1>0, <2>1, <2>2
  <2>4. ASSUME mounted, causes' = {}
        PROVE  /\ calls' = {d} /\ Patches' = {d}
               /\ ok => Exact(UpdateUserList(d.user).results)'
               /\ ~ok => Exact(userList.results)'
    <3>1. causes = {} /\ (applied => ok)
      BY <2>1, <2>4
    <3>2. c \in Patches
      BY <2>1 DEF Patches
    <3>3. calls = {c} /\ Patches = {c}
      BY <2>1, <2>4, <3>1, <3>2 DEF ListKept
    <3>4. Exact(userList.results)
      BY <2>1, <2>4, <3>1, <3>2 DEF ListKept
    <3>5. calls' = {d} /\ Patches' = {d}
      BY <2>1, <2>2, <3>3 DEF Patches
    <3>6. ASSUME ~ok PROVE Exact(userList.results)'
      <4>1. roles' = roles
        BY <2>1, <3>1, <3>6
      <4> QED
        BY <2>1, <3>4, <4>1 DEF Exact, Asked, get_paginated_users, Row_of
    <3>7. ASSUME ok PROVE Exact(UpdateUserList(d.user).results)'
      <4>1. roles' = [roles EXCEPT ![c.user.id] = c.user.role] /\ c.user \in UserRow
        BY <1>0, <2>1, <3>7 DEF Call
      <4>2. UpdateUserList(c.user).results = get_paginated_users(Asked)'
        <5>1. PICK q \in Query : q = Asked
          BY <1>0
        <5>2. userList.results = get_paginated_users(q)
          BY <3>4, <5>1 DEF Exact
        <5>3. UpdateUserList(c.user).results = get_paginated_users(q)'
          BY <4>1, <5>2, RolesFollow
        <5>4. q = Asked'
          BY <2>1, <5>1 DEF Asked
        <5> QED
          BY <5>3, <5>4
      <4>3. UpdateUserList(d.user)' = UpdateUserList(c.user)
        BY <2>1, <2>2 DEF UpdateUserList
      <4> QED
        BY <2>1, <3>4, <4>2, <4>3 DEF Exact, Asked
    <3> QED
      BY <3>5, <3>6, <3>7
  <2> QED
    BY <2>1, <2>2, <2>3, <2>4 DEF ListKept
<1>10. ASSUME NEW c \in calls, SetUserList(c) PROVE ListKept'
  <2>1. /\ calls' = calls \ {c} /\ c.kind = "list" /\ c.done
        /\ userList' = IF c.ok THEN [of |-> c.query, results |-> c.rows] ELSE userList
        /\ causes' = IF ~c.ok \/ Lists # {c} THEN causes \union {"order"} ELSE causes
        /\ UNCHANGED <<roles, mounted, filter, pageIndex, called>>
    BY <1>10, Zenon DEF SetUserList
  <2>2. \A a, b \in calls' : a.n <= called' /\ (a.n = b.n => a = b)
    BY <1>0, <2>1
  <2>3. ASSUME mounted, causes' = {}
        PROVE  calls' = {} /\ Patches' = {} /\ Exact(userList.results)'
    <3>1. causes = {} /\ c.ok /\ Lists = {c}
      BY <2>1, <2>3
    <3>2. Patches = {}
      BY <2>1, <2>3, <3>1 DEF ListKept, Patches
    <3>3. \A e \in calls : e.kind \in {"list", "patch"}
      BY <1>0 DEF Call
    <3>4. calls = {c}
      BY <3>1, <3>2, <3>3 DEF Lists, Patches
    <3>5. c.query = Asked /\ c.rows = get_paginated_users(Asked)
      BY <2>1, <2>3, <3>1, <3>2, <3>4 DEF ListKept
    <3>6. calls' = {} /\ Patches' = {}
      BY <2>1, <3>4 DEF Patches
    <3>7. userList'.of = Asked /\ userList'.results = get_paginated_users(Asked)
      BY <2>1, <3>1, <3>5
    <3> QED
      BY <2>1, <3>6, <3>7 DEF Exact, Asked, get_paginated_users, Row_of
  <2> QED
    BY <2>1, <2>2, <2>3 DEF ListKept
<1>11. ASSUME NEW c \in calls, UpdateUserRole(c) PROVE ListKept'
  <2>1. /\ calls' = calls \ {c} /\ c.kind = "patch" /\ c.done
        /\ userList' = IF c.ok THEN UpdateUserList(c.user) ELSE userList
        /\ UNCHANGED <<roles, mounted, filter, pageIndex, called, causes>>
    BY <1>11, Zenon DEF UpdateUserRole
  <2>2. \A a, b \in calls' : a.n <= called' /\ (a.n = b.n => a = b)
    BY <1>0, <2>1
  <2>3. ASSUME mounted, causes = {}
        PROVE  calls' = {} /\ Patches' = {} /\ Exact(userList.results)'
    <3>1. c \in Patches
      BY <2>1 DEF Patches
    <3>2. calls = {c}
      BY <2>3, <3>1 DEF ListKept
    <3>3. IF c.ok THEN Exact(UpdateUserList(c.user).results) ELSE Exact(userList.results)
      BY <2>1, <2>3, <3>1 DEF ListKept
    <3>4. UpdateUserList(c.user).of = userList.of
      BY DEF UpdateUserList, ManageUsersTypeOK
    <3>5. userList'.of = Asked /\ userList'.results = get_paginated_users(Asked)
      BY <2>1, <3>3, <3>4 DEF Exact
    <3>6. calls' = {} /\ Patches' = {}
      BY <2>1, <3>2 DEF Patches
    <3> QED
      BY <2>1, <3>5, <3>6 DEF Exact, Asked, get_paginated_users, Row_of
  <2> QED
    BY <2>1, <2>2, <2>3 DEF ListKept
<1>12. ASSUME NEW u \in Account, NEW granted \in Role, other_admin(u, granted)
       PROVE  ListKept'
  <2>1. causes' # {} /\ calls' = calls /\ called' = called
    BY <1>12 DEF other_admin
  <2> QED
    BY <1>0, <2>1 DEF ListKept
<1> QED
  BY <1>1, <1>2, <1>3, <1>4, <1>5, <1>6, <1>7, <1>8, <1>9, <1>10, <1>11, <1>12 DEF UsersNext

LEMMA UsersStart == UsersInit => ManageUsersTypeOK /\ ListKept
<1>1. ASSUME UsersInit PROVE ManageUsersTypeOK
  <2>1. NoList \in [of : Query, results : SUBSET UserRow]
    BY DEF NoList, Query
  <2> QED
    BY <1>1, <2>1, UsersAssumption DEF UsersInit, ManageUsersTypeOK
<1>2. ASSUME UsersInit PROVE ListKept
  BY <1>2 DEF UsersInit, ListKept
<1> QED
  BY <1>1, <1>2

\* Every variable of the page of the users keeps its type.
THEOREM UsersTypeCorrect == UsersSpec => []ManageUsersTypeOK
BY UsersStart, UsersTypeStep, PTL DEF UsersSpec

\* With nothing under way and nothing gone astray the list is the page that is asked for, with
\* the roles of the backend.
THEOREM ListExactHolds == UsersSpec => []ListExact
<1>1. ListKept => ListExact
  BY DEF ListKept, ListExact, Exact, Asked
<1> QED
  BY <1>1, UsersStart, UsersTypeStep, ListKeptStep, PTL DEF UsersSpec

-----------------------------------------------------------------------------
(* The panels of the project page. *)

LEMMA SendingType ==
  ASSUME PanelsTypeOK, NEW k \in Nat, NEW p \in Project, NEW t \in Selected,
         NEW kind \in {"project", "comments", "post", "tiles", "generate"}
  PROVE  Send(k, kind, p, t) \in Sending
<1>1. sendings + k \in Nat
  BY DEF PanelsTypeOK
<1>2. <<>> \in Seq(Comment)
  OBVIOUS
<1> QED
  BY <1>1, <1>2 DEF Send, Sending

LEMMA EffectTypes ==
  ASSUME PanelsTypeOK, NEW as \in SUBSET Sending, NEW k \in {1, 2}, NEW changed,
         CommentsEffect(as, k, changed), here' \in Somewhere
  PROVE  sends' \subseteq Sending /\ sendings' \in Nat /\ mixed' \in BOOLEAN
<1> DEFINE id == currentStatus(selectedTask', taskBoundries', here')
           fetches == changed /\ here' # NoProject /\ viewState' = "comments"
<1>1. id \in Selected
  BY DEF currentStatus, Selected
<1>2. CASE fetches
  <2>1. sends' = as \union {Send(k, "comments", here', id)} /\ sendings' = sendings + k
    BY <1>2, Zenon DEF CommentsEffect
  <2>2. mixed' \in BOOLEAN
    BY <1>2, Zenon DEF CommentsEffect
  <2>3. Send(k, "comments", here', id) \in Sending
    BY <1>1, <1>2, SendingType DEF Somewhere
  <2>4. sendings' \in Nat
    BY <2>1 DEF PanelsTypeOK
  <2> QED
    BY <2>1, <2>2, <2>3, <2>4
<1>3. CASE ~fetches
  <2>1. sends' = as /\ sendings' = sendings + k - 1
    BY <1>3, Zenon DEF CommentsEffect
  <2>2. mixed' = mixed
    BY <1>3, Zenon DEF CommentsEffect
  <2>3. sendings' \in Nat
    BY <2>1 DEF PanelsTypeOK
  <2> QED
    BY <2>1, <2>2, <2>3 DEF PanelsTypeOK
<1> QED
  BY <1>2, <1>3

LEMMA LayersTypes ==
  ASSUME PanelsTypeOK, NEW info,
         Mounted(info) \/ InfoChanges(info) \/ UNCHANGED <<layers, menu>> \/ viewed
  PROVE  /\ layers' \in [base : Base \union {"nothing"}, custom : BOOLEAN]
         /\ menu' \in [active : Base, tms : BOOLEAN, hasPMTile : BOOLEAN, tile : BOOLEAN]
<1> USE DEF PanelsTypeOK
<1>1. CASE Mounted(info)
  <2>1. layers' \in [base : Base \union {"nothing"}, custom : BOOLEAN]
    BY <1>1 DEF Mounted, Base
  <2>2. menu' \in [active : Base, tms : BOOLEAN, hasPMTile : BOOLEAN, tile : BOOLEAN]
    <3>1. \A x, y \in BOOLEAN :
            [active |-> "OSM", tms |-> x, hasPMTile |-> y, tile |-> y]
              \in [active : Base, tms : BOOLEAN, hasPMTile : BOOLEAN, tile : BOOLEAN]
      BY DEF Base
    <3>2. (info \in Tiled) \in BOOLEAN /\ (customBasemapUrl # NoProject) \in BOOLEAN
      OBVIOUS
    <3>3. menu' = [active |-> "OSM", tms |-> info \in Tiled,
                   hasPMTile |-> customBasemapUrl # NoProject,
                   tile |-> customBasemapUrl # NoProject]
      BY <1>1, Zenon DEF Mounted
    <3> HIDE DEF PanelsTypeOK
    <3> QED
      BY <3>1, <3>2, <3>3, Zenon
  <2> QED
    BY <2>1, <2>2
<1>2. CASE InfoChanges(info)
  BY <1>2 DEF InfoChanges, Base
<1>3. CASE UNCHANGED <<layers, menu>>
  BY <1>3
<1>4. CASE viewed
  BY <1>4 DEF viewed
<1> QED
  BY <1>1, <1>2, <1>3, <1>4

LEMMA PanelsTypeStep ==
  ASSUME PanelsTypeOK, [PanelsNext]_panelVars
  PROVE  PanelsTypeOK'
<1> USE DEF PanelsTypeOK
<1>a. /\ sends \subseteq Sending /\ \A a : sends \ {a} \subseteq Sending
      /\ sendings \in Nat /\ sendings + 1 \in Nat
      /\ NoArea \in Selected /\ NoProject \in Somewhere
      /\ Project \subseteq Somewhere /\ Area \subseteq Selected
      /\ OnPage => here \in Project
      /\ currentStatus(selectedTask, taskBoundries, here) \in Selected
  BY DEF Selected, Somewhere, OnPage, currentStatus
<1>1. CASE UNCHANGED panelVars
  BY <1>1 DEF panelVars
<1>2. ASSUME NEW p \in Project, open_panels(p) PROVE PanelsTypeOK'
  <2>1. /\ here' \in Somewhere /\ taskBoundries' \in Somewhere /\ projectInfo' \in Somewhere
    BY <1>2, <1>a DEF open_panels
  <2>2. /\ taskModalStatus' \in BOOLEAN /\ strayed' \in BOOLEAN
    BY <1>2, Zenon DEF open_panels
  <2>3. /\ viewState' \in {"project_info", "task_activity", "comments", "instructions"}
        /\ tiles' \in [open : BOOLEAN, of : Somewhere, loading : BOOLEAN]
    BY <1>2 DEF open_panels
  <2>4. /\ layers' \in [base : Base \union {"nothing"}, custom : BOOLEAN]
        /\ menu' \in [active : Base, tms : BOOLEAN, hasPMTile : BOOLEAN, tile : BOOLEAN]
    BY <1>2, LayersTypes, Zenon DEF open_panels
  <2>5. sends \union {Send(1, "project", p, NoArea)} \in SUBSET Sending
    BY <1>a, SendingType
  <2>6. CommentsEffect(sends \union {Send(1, "project", p, NoArea)}, 2, TRUE)
    BY <1>2 DEF open_panels
  <2>7. sends' \subseteq Sending /\ sendings' \in Nat /\ mixed' \in BOOLEAN
    BY <2>1, <2>5, <2>6, EffectTypes
  <2> QED
    BY <1>2, <2>1, <2>2, <2>3, <2>4, <2>7, Zenon DEF open_panels
<1>3. CASE leave_panels
  BY <1>3, <1>a DEF leave_panels
<1>4. ASSUME NEW t \in Area, projectClickOnTaskArea(t) PROVE PanelsTypeOK'
  <2>1. /\ taskModalStatus' \in BOOLEAN /\ selectedTask' \in Selected
        /\ viewState' \in {"project_info", "task_activity", "comments", "instructions"}
    BY <1>4, <1>a DEF projectClickOnTaskArea
  <2>2. sends' \subseteq Sending /\ sendings' \in Nat /\ mixed' \in BOOLEAN
    BY <1>4, <1>a, EffectTypes DEF projectClickOnTaskArea
  <2> QED
    BY <1>4, <2>1, <2>2, Zenon DEF projectClickOnTaskArea
<1>5. ASSUME NEW t \in Area, other_comments(t) PROVE PanelsTypeOK'
  <2>1. [n |-> others, mine |-> FALSE] \in Comment
    BY DEF Comment
  <2>2. log' \in [Area -> Seq(Comment)]
    BY <1>5, <2>1 DEF other_comments
  <2>3. others' \in Nat
    BY <1>5 DEF other_comments
  <2> QED
    BY <1>5, <2>2, <2>3 DEF other_comments
<1>6. ASSUME close_popup PROVE PanelsTypeOK'
  <2>1. /\ taskModalStatus' \in BOOLEAN /\ selectedTask' \in Selected
        /\ viewState' \in {"project_info", "task_activity", "comments", "instructions"}
    BY <1>6, <1>a DEF close_popup
  <2> QED
    BY <1>6, <2>1, Zenon DEF close_popup
<1>7. ASSUME NEW v \in {"project_info", "task_activity", "comments", "instructions"},
             setViewState(v)
      PROVE  PanelsTypeOK'
  <2>1. viewState' \in {"project_info", "task_activity", "comments", "instructions"}
    BY <1>7 DEF setViewState
  <2>2. sends' \subseteq Sending /\ sendings' \in Nat /\ mixed' \in BOOLEAN
    BY <1>7, <1>a, EffectTypes DEF setViewState
  <2> QED
    BY <1>7, <2>1, <2>2, Zenon DEF setViewState
<1>8. ASSUME PostProjectComments PROVE PanelsTypeOK'
  <2>1. sends' \subseteq Sending
    BY <1>8, <1>a, SendingType DEF PostProjectComments
  <2>2. sendings' \in Nat
    BY <1>8 DEF PostProjectComments
  <2>3. mixed' \in BOOLEAN
    BY <1>8, Zenon DEF PostProjectComments
  <2> QED
    BY <1>8, <2>1, <2>2, <2>3, Zenon DEF PostProjectComments
<1>9. ASSUME NEW popup \in BOOLEAN, ToggleGenerateMbTilesModalStatus(popup) PROVE PanelsTypeOK'
  <2>0. Send(1, "tiles", here, NoArea) \in Sending
    BY <1>9, <1>a, SendingType DEF ToggleGenerateMbTilesModalStatus
  <2>1. sends' \subseteq Sending
    BY <1>9, <1>a, <2>0 DEF ToggleGenerateMbTilesModalStatus, effect_open, AskTiles
  <2>2. sendings' \in Nat
    BY <1>9 DEF ToggleGenerateMbTilesModalStatus, effect_open, AskTiles
  <2>3. strayed' \in BOOLEAN
    BY <1>9, Zenon DEF ToggleGenerateMbTilesModalStatus, effect_open, AskTiles
  <2>4. /\ tiles' \in [open : BOOLEAN, of : Somewhere, loading : BOOLEAN]
        /\ viewState' \in {"project_info", "task_activity", "comments", "instructions"}
    BY <1>9 DEF ToggleGenerateMbTilesModalStatus
  <2>5. taskModalStatus' \in BOOLEAN
    BY <1>9, Zenon DEF ToggleGenerateMbTilesModalStatus
  <2> QED
    BY <1>9, <2>1, <2>2, <2>3, <2>4, <2>5, Zenon DEF ToggleGenerateMbTilesModalStatus
<1>10. ASSUME close_dialog PROVE PanelsTypeOK'
  <2>1. tiles' \in [open : BOOLEAN, of : Somewhere, loading : BOOLEAN]
    BY <1>10 DEF close_dialog
  <2> QED
    BY <1>10, <2>1, Zenon DEF close_dialog
<1>11. ASSUME RefreshTiles PROVE PanelsTypeOK'
  <2>1. sends' \subseteq Sending
    BY <1>11, <1>a, SendingType DEF RefreshTiles, AskTiles
  <2>2. sendings' \in Nat
    BY <1>11 DEF RefreshTiles, AskTiles
  <2>3. strayed' \in BOOLEAN
    BY <1>11, Zenon DEF RefreshTiles, AskTiles
  <2> QED
    BY <1>11, <2>1, <2>2, <2>3, Zenon DEF RefreshTiles
<1>12. ASSUME generateProjectTiles PROVE PanelsTypeOK'
  <2>0. Send(1, "generate", here, NoArea) \in Sending
    BY <1>12, <1>a, SendingType DEF generateProjectTiles
  <2>1. sends' \subseteq Sending
    BY <1>12, <1>a, <2>0 DEF generateProjectTiles
  <2>2. sendings' \in Nat
    BY <1>12 DEF generateProjectTiles
  <2>3. tiles' \in [open : BOOLEAN, of : Somewhere, loading : BOOLEAN]
    BY <1>12 DEF generateProjectTiles
  <2> QED
    BY <1>12, <2>1, <2>2, <2>3, Zenon DEF generateProjectTiles
<1>13. ASSUME SetPmtileBasemapUrl PROVE PanelsTypeOK'
  <2>1. /\ layers' \in [base : Base \union {"nothing"}, custom : BOOLEAN]
        /\ menu' \in [active : Base, tms : BOOLEAN, hasPMTile : BOOLEAN, tile : BOOLEAN]
    BY <1>13, LayersTypes, Zenon DEF SetPmtileBasemapUrl
  <2>2. customBasemapUrl' \in Somewhere
    BY <1>13 DEF SetPmtileBasemapUrl
  <2> QED
    BY <1>13, <2>1, <2>2, Zenon DEF SetPmtileBasemapUrl
<1>14. ASSUME toggleTileLayer PROVE PanelsTypeOK'
  <2>1. /\ layers' \in [base : Base \union {"nothing"}, custom : BOOLEAN]
        /\ menu' \in [active : Base, tms : BOOLEAN, hasPMTile : BOOLEAN, tile : BOOLEAN]
    BY <1>14 DEF toggleTileLayer
  <2> QED
    BY <1>14, <2>1, Zenon DEF toggleTileLayer
<1>15. ASSUME NEW title \in Base, changeBaseLayer(title) PROVE PanelsTypeOK'
  <2>1. /\ layers' \in [base : Base \union {"nothing"}, custom : BOOLEAN]
        /\ menu' \in [active : Base, tms : BOOLEAN, hasPMTile : BOOLEAN, tile : BOOLEAN]
    BY <1>15 DEF changeBaseLayer
  <2> QED
    BY <1>15, <2>1, Zenon DEF changeBaseLayer
<1>16. ASSUME NEW a \in sends, NEW ok \in BOOLEAN, serve(a, ok) PROVE PanelsTypeOK'
  <2> DEFINE list == IF a.kind = "comments" /\ ok THEN log[a.task] ELSE <<>>
             b == [a EXCEPT !.done = TRUE, !.ok = ok, !.rows = list]
  <2>1. a \in Sending /\ (ok => a.task \in Area)
    BY <1>16, <1>a DEF serve, Sending, Selected
  <2>2. list \in Seq(Comment)
    BY <2>1
  <2> HIDE DEF list
  <2>3. b \in Sending
    BY <2>1, <2>2 DEF Sending
  <2>4. sends' = (sends \ {a}) \union {b}
    BY <1>16, Zenon DEF serve, list
  <2>5. log' \in [Area -> Seq(Comment)]
    <3>1. [n |-> a.n, mine |-> TRUE] \in Comment
      BY <2>1 DEF Comment, Sending
    <3>2. \/ /\ a.task \in Area
             /\ log' = [log EXCEPT ![a.task] = Append(@, [n |-> a.n, mine |-> TRUE])]
          \/ log' = log
      BY <1>16, <2>1 DEF serve, Sending, Selected
    <3>3. a.task \in Area => Append(log[a.task], [n |-> a.n, mine |-> TRUE]) \in Seq(Comment)
      BY <3>1
    <3> QED
      BY <3>2, <3>3
  <2> HIDE DEF b
  <2>6. sends' \subseteq Sending
    BY <1>a, <2>3, <2>4
  <2>7. UNCHANGED <<here, taskBoundries, projectInfo, taskModalStatus, viewState, selectedTask,
                    projectCommentsList, tiles, customBasemapUrl, layers, menu, sendings, others,
                    mixed, strayed>>
    BY <1>16, Zenon DEF serve
  <2> QED
    BY <2>5, <2>6, <2>7
<1>17. ASSUME NEW a \in sends, NEW ok \in BOOLEAN, ProjectById(a, ok) PROVE PanelsTypeOK'
  <2>1. taskBoundries' \in Somewhere /\ projectInfo' \in Somewhere
    BY <1>17, <1>a DEF ProjectById, Sending
  <2>2. /\ layers' \in [base : Base \union {"nothing"}, custom : BOOLEAN]
        /\ menu' \in [active : Base, tms : BOOLEAN, hasPMTile : BOOLEAN, tile : BOOLEAN]
    BY <1>17, LayersTypes, Zenon DEF ProjectById
  <2>3. here' \in Somewhere /\ sends \ {a} \in SUBSET Sending
    BY <1>17 DEF ProjectById
  <2>4. PICK c : CommentsEffect(sends \ {a}, 1, c)
    BY <1>17 DEF ProjectById
  <2>5. sends' \subseteq Sending /\ sendings' \in Nat /\ mixed' \in BOOLEAN
    BY <2>3, <2>4, EffectTypes
  <2> QED
    BY <1>17, <2>1, <2>2, <2>5, Zenon DEF ProjectById
<1>18. ASSUME NEW a \in sends, NEW ok \in BOOLEAN, GetTilesList(a, ok) PROVE PanelsTypeOK'
  <2>1. tiles' \in [open : BOOLEAN, of : Somewhere, loading : BOOLEAN]
    BY <1>18, <1>a DEF GetTilesList, Sending
  <2>2. strayed' \in BOOLEAN
    BY <1>18, Zenon DEF GetTilesList
  <2> QED
    BY <1>18, <1>a, <2>1, <2>2, Zenon DEF GetTilesList
<1>19. ASSUME NEW a \in sends, NEW ok \in BOOLEAN, GenerateProjectTiles(a, ok)
       PROVE  PanelsTypeOK'
  <2>1. tiles' \in [open : BOOLEAN, of : Somewhere, loading : BOOLEAN]
    BY <1>19 DEF GenerateProjectTiles
  <2>2. a \in Sending
    BY <1>a
  <2>4. [a EXCEPT !.kind = "tiles"] \in Sending
    BY <2>2 DEF Sending
  <2>3. sends' \subseteq Sending
    BY <1>19, <1>a, <2>4 DEF GenerateProjectTiles
  <2> QED
    BY <1>19, <2>1, <2>3, Zenon DEF GenerateProjectTiles
<1>20. ASSUME NEW a \in sends, GetProjectComments(a) PROVE PanelsTypeOK'
  <2>1. projectCommentsList' \in [of : Selected, rows : Seq(Comment)]
    BY <1>20, <1>a DEF GetProjectComments, Sending
  <2>2. mixed' \in BOOLEAN
    BY <1>20, Zenon DEF GetProjectComments
  <2> QED
    BY <1>20, <1>a, <2>1, <2>2, Zenon DEF GetProjectComments
<1>21. ASSUME NEW a \in sends, CommentPosted(a) PROVE PanelsTypeOK'
  <2>1. [n |-> a.n, mine |-> TRUE] \in Comment
    BY <1>a DEF Comment, Sending
  <2>2. UpdateProjectCommentsList(a) \in Seq(Comment)
    BY <2>1 DEF UpdateProjectCommentsList
  <2>3. projectCommentsList' \in [of : Selected, rows : Seq(Comment)]
    BY <1>21, <2>2 DEF CommentPosted
  <2>4. mixed' \in BOOLEAN
    BY <1>21, Zenon DEF CommentPosted
  <2> QED
    BY <1>21, <1>a, <2>3, <2>4, Zenon DEF CommentPosted
<1> HIDE DEF PanelsTypeOK
<1> QED
  BY <1>1, <1>2, <1>3, <1>4, <1>5, <1>6, <1>7, <1>8, <1>9, <1>10, <1>11, <1>12, <1>13, <1>14,
     <1>15, <1>16, <1>17, <1>18, <1>19, <1>20, <1>21 DEF PanelsNext

-----------------------------------------------------------------------------
(* MenuFits is inductive: whatever hides a layer either unmarks it or leaves no base layer. *)

LEMMA MenuStep ==
  ASSUME PanelsTypeOK, MenuFits, [PanelsNext]_panelVars
  PROVE  MenuFits'
<1>1. ASSUME NEW info, InfoChanges(info),
             layers.base # "nothing" => menu.active = layers.base, menu.tile = layers.custom
      PROVE  /\ layers'.base # "nothing" => menu'.active = layers'.base
             /\ menu'.tile = layers'.custom
  BY <1>1 DEF InfoChanges, PanelsTypeOK
<1>2. ASSUME viewed, layers.base # "nothing" => menu.active = layers.base
      PROVE  /\ layers'.base # "nothing" => menu'.active = layers'.base
             /\ menu'.tile = layers'.custom
  BY <1>2 DEF viewed, PanelsTypeOK
<1>3. ASSUME NEW info, Mounted(info)
      PROVE  /\ layers'.base # "nothing" => menu'.active = layers'.base
             /\ menu'.tile = layers'.custom
  BY <1>3 DEF Mounted
<1>4. CASE UNCHANGED <<layers, menu>> /\ here' = here
  BY <1>4 DEF MenuFits, OnPage
<1>5. ASSUME NEW p \in Project, open_panels(p) PROVE MenuFits'
  <2>1. CASE here = NoProject
    BY <1>3, <1>5, <2>1 DEF open_panels, MenuFits
  <2>2. CASE here # NoProject
    BY <1>1, <1>5, <2>2 DEF open_panels, MenuFits, OnPage
  <2> QED
    BY <2>1, <2>2
<1>6. CASE leave_panels
  BY <1>6 DEF leave_panels, MenuFits, OnPage
<1>7. CASE SetPmtileBasemapUrl
  BY <1>2, <1>4, <1>7 DEF SetPmtileBasemapUrl, MenuFits
<1>8. CASE toggleTileLayer
  BY <1>8 DEF toggleTileLayer, MenuFits, PanelsTypeOK, OnPage
<1>9. ASSUME NEW title \in Base, changeBaseLayer(title) PROVE MenuFits'
  BY <1>9 DEF changeBaseLayer, MenuFits, PanelsTypeOK, OnPage
<1>10. ASSUME NEW a \in sends, NEW ok \in BOOLEAN, ProjectById(a, ok) PROVE MenuFits'
  BY <1>1, <1>4, <1>10 DEF ProjectById, MenuFits, OnPage
<1>11. CASE UNCHANGED panelVars
  BY <1>4, <1>11 DEF panelVars
<1>12. ASSUME NEW t \in Area, projectClickOnTaskArea(t) \/ other_comments(t) PROVE MenuFits'
  BY <1>4, <1>12 DEF projectClickOnTaskArea, other_comments
<1>13. CASE close_popup \/ PostProjectComments \/ close_dialog \/ RefreshTiles
            \/ generateProjectTiles
  BY <1>4, <1>13
  DEF close_popup, PostProjectComments, close_dialog, RefreshTiles, generateProjectTiles
<1>14. ASSUME NEW v, setViewState(v) PROVE MenuFits'
  BY <1>4, <1>14 DEF setViewState
<1>15. ASSUME NEW popup \in BOOLEAN, ToggleGenerateMbTilesModalStatus(popup) PROVE MenuFits'
  BY <1>4, <1>15 DEF ToggleGenerateMbTilesModalStatus
<1>16. ASSUME NEW a \in sends, NEW ok \in BOOLEAN,
              serve(a, ok) \/ GetTilesList(a, ok) \/ GenerateProjectTiles(a, ok)
       PROVE  MenuFits'
  BY <1>4, <1>16 DEF serve, GetTilesList, GenerateProjectTiles
<1>17. ASSUME NEW a \in sends, GetProjectComments(a) \/ CommentPosted(a) PROVE MenuFits'
  BY <1>4, <1>17 DEF GetProjectComments, CommentPosted
<1> QED
  BY <1>5, <1>6, <1>7, <1>8, <1>9, <1>10, <1>11, <1>12, <1>13, <1>14, <1>15, <1>16, <1>17
  DEF PanelsNext

-----------------------------------------------------------------------------
(* TilesFit: as long as nothing strayed, every request under way is about the project in the *)
(* address, and its list is either shown or to come.                                         *)

Listed ==
  tiles.open /\ OnPage /\ ~strayed =>
    /\ \A a \in AboutTiles(sends) : a.project = here
    /\ tiles.of = here \/ \E a \in sends : a.kind = "tiles" /\ a.project = here

\* A step that leaves the dialog, the page and the requests about tiles alone.
LEMMA ListedKept ==
  ASSUME Listed, UNCHANGED <<here, tiles, strayed>>, AboutTiles(sends)' = AboutTiles(sends)
  PROVE  Listed'
<1>1. \A a \in sends : a.kind = "tiles" => a \in AboutTiles(sends)
  BY DEF AboutTiles
<1>2. \A a : a \in AboutTiles(sends) => a \in sends'
  BY DEF AboutTiles
<1> QED
  BY <1>1, <1>2 DEF Listed, OnPage

\* Neither the effect of Comments nor an answer about something else is about tiles.
LEMMA EffectOfOthers ==
  ASSUME NEW as, NEW k, NEW changed, CommentsEffect(as, k, changed)
  PROVE  AboutTiles(sends)' = AboutTiles(as)
<1> DEFINE q == Send(k, "comments", here', currentStatus(selectedTask', taskBoundries', here'))
<1>1. q.kind = "comments"
  BY DEF Send
<1> HIDE DEF q
<1>2. sends' = as \union {q} \/ sends' = as
  BY Zenon DEF CommentsEffect, q
<1> QED
  BY <1>1, <1>2 DEF AboutTiles

LEMMA ListedStep ==
  ASSUME PanelsTypeOK, Listed, [PanelsNext]_panelVars
  PROVE  Listed'
<1>0. /\ sends \subseteq Sending
      /\ tiles \in [open : BOOLEAN, of : Somewhere, loading : BOOLEAN]
  BY DEF PanelsTypeOK
<1>a. \A k, kind, p, t : Send(k, kind, p, t).kind = kind /\ Send(k, kind, p, t).project = p
  BY DEF Send
<1>1. CASE UNCHANGED panelVars
  BY <1>1, ListedKept DEF panelVars, AboutTiles
<1>2. ASSUME NEW p \in Project, open_panels(p) PROVE Listed'
  <2>1. CASE here = NoProject
    BY <1>0, <1>2, <2>1 DEF open_panels, Listed
  <2>2. CASE here # NoProject
    BY <1>2, <2>2 DEF open_panels, Listed
  <2> QED
    BY <2>1, <2>2
<1>3. CASE leave_panels
  BY <1>3 DEF leave_panels, Listed, OnPage
<1>4. ASSUME NEW t \in Area, projectClickOnTaskArea(t) PROVE Listed'
  <2>1. AboutTiles(sends)' = AboutTiles(sends)
    BY <1>4, EffectOfOthers DEF projectClickOnTaskArea
  <2> QED
    BY <1>4, <2>1, ListedKept DEF projectClickOnTaskArea
<1>5. ASSUME NEW t \in Area, other_comments(t) PROVE Listed'
  BY <1>5, ListedKept DEF other_comments, AboutTiles
<1>6. CASE close_popup
  BY <1>6, ListedKept DEF close_popup, AboutTiles
<1>7. ASSUME NEW v, setViewState(v) PROVE Listed'
  <2>1. AboutTiles(sends)' = AboutTiles(sends)
    BY <1>7, EffectOfOthers DEF setViewState
  <2> QED
    BY <1>7, <2>1, ListedKept DEF setViewState
<1>8. CASE PostProjectComments
  <2>1. AboutTiles(sends)' = AboutTiles(sends)
    BY <1>8, <1>a DEF PostProjectComments, AboutTiles
  <2> QED
    BY <1>8, <2>1, ListedKept DEF PostProjectComments
<1>9. ASSUME UNCHANGED here, AskTiles("tiles") PROVE Listed'
  <2> DEFINE q == Send(1, "tiles", here, NoArea)
  <2>1. /\ sends' = sends \union {q} /\ q.kind = "tiles" /\ q.project = here
        /\ strayed' = \E a \in AboutTiles(sends) : a.project # here
    BY <1>9, <1>a DEF AskTiles
  <2> HIDE DEF q
  <2>2. ~strayed' => \A a \in AboutTiles(sends)' : a.project = here
    BY <2>1 DEF AboutTiles
  <2>3. \E a \in sends' : a.kind = "tiles" /\ a.project = here
    BY <2>1
  <2> QED
    BY <1>9, <2>2, <2>3 DEF Listed
<1>10. ASSUME NEW popup \in BOOLEAN, ToggleGenerateMbTilesModalStatus(popup) PROVE Listed'
  BY <1>9, <1>10 DEF ToggleGenerateMbTilesModalStatus, effect_open
<1>11. CASE close_dialog
  BY <1>0, <1>11 DEF close_dialog, Listed
<1>12. CASE RefreshTiles
  BY <1>9, <1>12 DEF RefreshTiles
<1>13. ASSUME generateProjectTiles PROVE Listed'
  <2>1. PICK q : q.kind = "generate" /\ q.project = here /\ sends' = sends \union {q}
    BY <1>13, <1>a DEF generateProjectTiles
  <2>2. tiles'.open = tiles.open /\ tiles'.of = tiles.of
    BY <1>0, <1>13 DEF generateProjectTiles
  <2> QED
    BY <1>13, <2>1, <2>2 DEF generateProjectTiles, Listed, AboutTiles, OnPage
<1>14. CASE SetPmtileBasemapUrl \/ toggleTileLayer
  BY <1>14, ListedKept DEF SetPmtileBasemapUrl, toggleTileLayer, AboutTiles
<1>15. ASSUME NEW title \in Base, changeBaseLayer(title) PROVE Listed'
  BY <1>15, ListedKept DEF changeBaseLayer, AboutTiles
<1>16. ASSUME NEW a \in sends, NEW ok \in BOOLEAN, serve(a, ok) PROVE Listed'
  <2>1. PICK b : b.kind = a.kind /\ sends' = (sends \ {a}) \union {b}
    BY <1>0, <1>16 DEF serve, Sending
  <2>2. a \notin AboutTiles(sends) /\ a.kind \in {"comments", "post"}
    BY <1>16 DEF serve, AboutTiles, AboutComments
  <2>3. AboutTiles(sends)' = AboutTiles(sends)
    BY <2>1, <2>2 DEF AboutTiles
  <2> QED
    BY <1>16, <2>3, ListedKept DEF serve
<1>17. ASSUME NEW a \in sends, NEW ok \in BOOLEAN, ProjectById(a, ok) PROVE Listed'
  <2>1. AboutTiles(sends)' = AboutTiles(sends \ {a})
    BY <1>17, EffectOfOthers DEF ProjectById
  <2>2. AboutTiles(sends \ {a}) = AboutTiles(sends)
    BY <1>17 DEF ProjectById, AboutTiles
  <2> QED
    BY <1>17, <2>1, <2>2, ListedKept DEF ProjectById
<1>18. ASSUME NEW a \in sends, NEW ok \in BOOLEAN, GetTilesList(a, ok) PROVE Listed'
  <2>1. ok => tiles'.of = a.project
    BY <1>0, <1>18 DEF GetTilesList
  <2>2. tiles'.open = tiles.open
    BY <1>0, <1>18 DEF GetTilesList
  <2>3. /\ ~strayed' => ~strayed /\ ok /\ a.project = here
        /\ sends' = sends \ {a} /\ here' = here
    BY <1>18 DEF GetTilesList
  <2> QED
    BY <2>1, <2>2, <2>3 DEF Listed, AboutTiles, OnPage
<1>19. ASSUME NEW a \in sends, NEW ok \in BOOLEAN, GenerateProjectTiles(a, ok) PROVE Listed'
  <2> DEFINE b == [a EXCEPT !.kind = "tiles"]
  <2>1. a.kind = "generate" /\ b.kind = "tiles" /\ b.project = a.project
    BY <1>0, <1>19 DEF GenerateProjectTiles, Sending
  <2>2. sends' = (sends \ {a}) \union {b} \/ sends' = sends \ {a}
    BY <1>19 DEF GenerateProjectTiles
  <2>3. /\ tiles'.open = tiles.open /\ tiles'.of = tiles.of
        /\ here' = here /\ strayed' = strayed
    BY <1>0, <1>19 DEF GenerateProjectTiles
  <2> HIDE DEF b
  <2>4. a \in AboutTiles(sends)
    BY <2>1 DEF AboutTiles
  <2> SUFFICES ASSUME tiles.open, OnPage, ~strayed
               PROVE  /\ \A c \in AboutTiles(sends)' : c.project = here
                      /\ \/ tiles.of = here
                         \/ \E c \in sends' : c.kind = "tiles" /\ c.project = here
    BY <2>3 DEF Listed, OnPage
  <2>5. /\ \A c \in AboutTiles(sends) : c.project = here
        /\ tiles.of = here \/ \E c \in sends : c.kind = "tiles" /\ c.project = here
    BY DEF Listed
  <2>6. \A c \in AboutTiles(sends)' : c.project = here
    BY <2>1, <2>2, <2>4, <2>5 DEF AboutTiles
  <2>7. (\E c \in sends : c.kind = "tiles" /\ c.project = here)
          => \E c \in sends' : c.kind = "tiles" /\ c.project = here
    BY <2>1, <2>2
  <2> QED
    BY <2>5, <2>6, <2>7
<1>20. ASSUME NEW a \in sends, GetProjectComments(a) \/ CommentPosted(a) PROVE Listed'
  <2>1. AboutTiles(sends)' = AboutTiles(sends)
    BY <1>20 DEF GetProjectComments, CommentPosted, AboutTiles
  <2> QED
    BY <1>20, <2>1, ListedKept DEF GetProjectComments, CommentPosted
<1> QED
  BY <1>1, <1>2, <1>3, <1>4, <1>5, <1>6, <1>7, <1>8, <1>10, <1>11, <1>12, <1>13, <1>14, <1>15,
     <1>16, <1>17, <1>18, <1>19, <1>20 DEF PanelsNext

-----------------------------------------------------------------------------
(* CommentsFit: at most one request about comments is under way while nothing is mixed, it  *)
(* is about the selected task, and with its answer the list is as it should be.             *)

Current == currentStatus(selectedTask, taskBoundries, here)

Own(a) == [n |-> a.n, mine |-> TRUE]

\* A list of the comments of t: none twice, and all of the user's own.
Complete(list, t) ==
  /\ IsInjective(list)
  /\ Range(list) \subseteq Range(log[t])
  /\ OwnOf(list) = OwnOf(log[t])

\* A comment that is still to be written has a number no comment has.
Fresh ==
  /\ \A a \in sends : a.n <= sendings
  /\ \A a, b \in sends : a.kind = "post" /\ b.kind = "post" => a = b
  /\ \A t \in Area :
       /\ IsInjective(log[t])
       /\ \A c \in Range(log[t]) : IF c.mine THEN c.n <= sendings ELSE c.n < others
       /\ \A a \in sends : a.kind = "post" /\ ~a.done => Own(a) \notin Range(log[t])

Kept(cs, id) ==
  /\ \A a, b \in cs : a = b
  /\ \A a \in cs : a.task = id
  /\ \A a \in cs : a.kind = "comments" /\ a.done /\ a.ok => id \in Area /\ Complete(a.rows, id)
  /\ (\A a \in cs : a.kind = "post") =>
       /\ projectCommentsList.of = id /\ id \in Area
       /\ \A a \in cs : a.done /\ a.ok => Complete(Append(projectCommentsList.rows, Own(a)), id)
       /\ (\A a \in cs : ~a.done) => Complete(projectCommentsList.rows, id)

CommentsKept ==
  OnPage /\ viewState = "comments" /\ ~mixed => Kept(AboutComments(sends), Current)

LEMMA Appended ==
  ASSUME NEW s \in Seq(Comment), NEW c \in Comment
  PROVE  /\ Range(Append(s, c)) = Range(s) \union {c}
         /\ IsInjective(s) /\ c \notin Range(s) => IsInjective(Append(s, c))
         /\ OwnOf(Append(s, c)) = OwnOf(s) \union (IF c.mine THEN {c.n} ELSE {})
<1> DEFINE m == Len(s)
           r == Append(s, c)
<1>1. /\ m \in Nat /\ DOMAIN s = 1..m /\ DOMAIN r = 1..(m + 1)
      /\ r[m + 1] = c /\ \A i \in 1..m : r[i] = s[i]
  OBVIOUS
<1> HIDE DEF r, m
<1>2. 1..(m + 1) = 1..m \union {m + 1} /\ m + 1 \notin 1..m
  BY <1>1
<1>3. Range(r) = Range(s) \union {c}
  BY <1>1, <1>2 DEF Range
<1>4. ASSUME IsInjective(s), c \notin Range(s) PROVE IsInjective(r)
  <2>1. \A i \in 1..m : s[i] # c
    BY <1>1, <1>4 DEF Range
  <2> QED
    BY <1>1, <1>2, <1>4, <2>1 DEF IsInjective
<1>5. OwnOf(r) = OwnOf(s) \union (IF c.mine THEN {c.n} ELSE {})
  BY <1>1, <1>2 DEF OwnOf
<1> QED
  BY <1>3, <1>4, <1>5 DEF r

\* The comments of a task only grow; a comment of another user leaves the user's own.
LEMMA ListsKept ==
  ASSUME NEW list, NEW t, Complete(list, t),
         log'[t] = log[t] \/ (Range(log[t]) \subseteq Range(log'[t]) /\ OwnOf(log'[t]) = OwnOf(log[t]))
  PROVE  Complete(list, t)'
BY DEF Complete

LEMMA EffectSends ==
  ASSUME PanelsTypeOK, NEW as, NEW k \in {1, 2}, NEW changed, CommentsEffect(as, k, changed)
  PROVE  \/ /\ sends' = as /\ mixed' = mixed /\ sendings' = sendings + k - 1
            /\ ~(changed /\ here' # NoProject /\ viewState' = "comments")
         \/ /\ sends' = as \union {Send(k, "comments", here', Current')}
            /\ sendings' = sendings + k /\ mixed' = (AboutComments(as) # {})
<1> DEFINE fetches == changed /\ here' # NoProject /\ viewState' = "comments"
<1>0. sendings \in Nat
  BY DEF PanelsTypeOK
<1>1. CASE fetches
  <2>1. sends' = as \union {Send(k, "comments", here', Current')} /\ sendings' = sendings + k
    BY <1>1, Zenon DEF CommentsEffect, Current
  <2>2. mixed' = (AboutComments(as) # {})
    BY <1>1, Zenon DEF CommentsEffect
  <2> QED
    BY <2>1, <2>2
<1>2. CASE ~fetches
  <2>1. sends' = as /\ mixed' = mixed
    BY <1>2, Zenon DEF CommentsEffect
  <2>2. sendings' = sendings + k - 1
    BY <1>2 DEF CommentsEffect
  <2> QED
    BY <1>2, <2>1, <2>2
<1> QED
  BY <1>1, <1>2

LEMMA EffectFresh ==
  ASSUME PanelsTypeOK, NEW as, NEW k \in {1, 2}, NEW changed, CommentsEffect(as, k, changed),
         \A a \in as : a \in sends \/ (a.kind # "post" /\ a.n <= sendings + k - 1),
         \A a \in as : a.n \in Nat
  PROVE  /\ sendings' >= sendings /\ sendings' \in Nat
         /\ \A a \in sends' : a \in sends \/ (a.kind # "post" /\ a.n <= sendings')
<1> DEFINE q == Send(k, "comments", here', Current')
<1>1. sendings \in Nat
  BY DEF PanelsTypeOK
<1>2. q.kind # "post" /\ q.n = sendings + k
  BY DEF Send
<1> HIDE DEF q
<1>3. CASE sends' = as /\ sendings' = sendings + k - 1
  <2>1. sendings' >= sendings /\ sendings' \in Nat
    BY <1>1, <1>3
  <2> QED
    BY <1>3, <2>1
<1>4. CASE sends' = as \union {q} /\ sendings' = sendings + k
  <2>1. sendings' >= sendings /\ sendings' \in Nat
    BY <1>1, <1>4
  <2>2. ASSUME NEW a \in as, a.n <= sendings + k - 1 PROVE a.n <= sendings'
    <3>1. a.n \in Nat
      OBVIOUS
    <3> QED
      BY <1>1, <1>4, <2>2, <3>1
  <2>3. q.n <= sendings'
    BY <1>1, <1>2, <1>4
  <2> QED
    BY <1>2, <1>4, <2>1, <2>2, <2>3
<1>5. \/ sends' = as /\ sendings' = sendings + k - 1
      \/ sends' = as \union {q} /\ sendings' = sendings + k
  BY EffectSends, Zenon DEF q
<1> QED
  BY <1>3, <1>4, <1>5

LEMMA FreshStep ==
  ASSUME PanelsTypeOK, Fresh, [PanelsNext]_panelVars
  PROVE  Fresh'
<1>0. /\ sends \subseteq Sending /\ sendings \in Nat /\ others \in Nat
      /\ log \in [Area -> Seq(Comment)]
      /\ \A a \in sends : a.n \in Nat /\ a.n <= sendings
      /\ \A t \in Area : \A c \in Range(log[t]) : c \in Comment /\ c.n \in Nat
  <2>1. \A t \in Area : \A c \in Range(log[t]) : c \in Comment
    BY DEF PanelsTypeOK, Range
  <2> QED
    BY <2>1 DEF PanelsTypeOK, Sending, Fresh, Comment
<1>a. \A k, kind, p, t : /\ Send(k, kind, p, t).kind = kind /\ Send(k, kind, p, t).n = sendings + k
                         /\ ~Send(k, kind, p, t).done
  BY DEF Send
\* Nothing is written, and no comment is sent.
<1>b. ASSUME UNCHANGED <<log, others>>, sendings' >= sendings, sendings' \in Nat,
             \A a \in sends' : \/ a \in sends
                               \/ a.kind # "post" /\ a.n <= sendings'
      PROVE  Fresh'
  <2>1. \A a \in sends' : a.n <= sendings'
    BY <1>0, <1>b DEF Fresh
  <2>2. \A a, b \in sends' : a.kind = "post" /\ b.kind = "post" => a = b
    BY <1>b DEF Fresh
  <2>3. ASSUME NEW t \in Area
        PROVE  /\ IsInjective(log[t])'
               /\ \A c \in Range(log[t]) : IF c.mine THEN c.n <= sendings' ELSE c.n < others
               /\ \A a \in sends' : a.kind = "post" /\ ~a.done => Own(a) \notin Range(log[t])
    <3>1. IsInjective(log[t])'
      BY <1>b DEF Fresh
    <3>2. ASSUME NEW c \in Range(log[t]) PROVE IF c.mine THEN c.n <= sendings' ELSE c.n < others
      BY <1>0, <1>b DEF Fresh
    <3>3. \A a \in sends' : a.kind = "post" /\ ~a.done => Own(a) \notin Range(log[t])
      BY <1>b DEF Fresh
    <3> QED
      BY <3>1, <3>2, <3>3
  <2> QED
    BY <1>b, <2>1, <2>2, <2>3 DEF Fresh
<1>c. ASSUME NEW as \in SUBSET sends, NEW changed, CommentsEffect(as, 1, changed),
             UNCHANGED <<log, others>>
      PROVE  Fresh'
  <2>1. /\ sendings' >= sendings /\ sendings' \in Nat
        /\ \A a \in sends' : a \in sends \/ (a.kind # "post" /\ a.n <= sendings')
    BY <1>0, <1>c, EffectFresh
  <2> QED
    BY <1>b, <1>c, <2>1
<1>d. ASSUME NEW q, q.kind # "post", q.n = sendings + 1, sends' = sends \union {q},
             sendings' = sendings + 1, UNCHANGED <<log, others>>
      PROVE  Fresh'
  <2>1. sendings' >= sendings /\ sendings' \in Nat /\ q.n <= sendings'
    BY <1>0, <1>d
  <2>2. \A a \in sends' : a \in sends \/ (a.kind # "post" /\ a.n <= sendings')
    BY <1>d, <2>1
  <2> QED
    BY <1>b, <1>d, <2>1, <2>2
<1>e. ASSUME sends' \subseteq sends, UNCHANGED <<log, others, sendings>>
      PROVE  Fresh'
  BY <1>0, <1>b, <1>e
\* A comment is written: it is appended to those of one task.
<1>f. ASSUME NEW t \in Area, NEW c \in Comment, log' = [log EXCEPT ![t] = Append(@, c)],
             IsInjective(log[t]), c \notin Range(log[t])
      PROVE  /\ IsInjective(log'[t]) /\ Range(log'[t]) = Range(log[t]) \union {c}
             /\ \A u \in Area \ {t} : log'[u] = log[u]
  <2>1. log'[t] = Append(log[t], c) /\ \A u \in Area \ {t} : log'[u] = log[u]
    BY <1>0, <1>f
  <2> QED
    BY <1>0, <1>f, <2>1, Appended
<1>1. CASE UNCHANGED panelVars
  BY <1>1, <1>e DEF panelVars
<1>2. ASSUME NEW p \in Project, open_panels(p) PROVE Fresh'
  <2> DEFINE q == Send(1, "project", p, NoArea)
             as == sends \union {q}
  <2>1. q.kind # "post" /\ q.n = sendings + 1 /\ q.n \in Nat
    BY <1>0, <1>a
  <2>2. CommentsEffect(as, 2, TRUE) /\ UNCHANGED <<log, others>>
    BY <1>2 DEF open_panels
  <2> HIDE DEF q
  <2>3. q.n <= sendings + 2 - 1
    BY <1>0, <2>1
  <2>4. /\ \A a \in as : a \in sends \/ (a.kind # "post" /\ a.n <= sendings + 2 - 1)
        /\ \A a \in as : a.n \in Nat
    BY <1>0, <2>1, <2>3
  <2> HIDE DEF as
  <2>5. /\ sendings' >= sendings /\ sendings' \in Nat
        /\ \A a \in sends' : a \in sends \/ (a.kind # "post" /\ a.n <= sendings')
    BY <2>2, <2>4, EffectFresh
  <2> QED
    BY <1>b, <2>2, <2>5
<1>3. CASE leave_panels \/ close_popup \/ close_dialog
  BY <1>3, <1>e DEF leave_panels, close_popup, close_dialog
<1>4. ASSUME NEW t \in Area, projectClickOnTaskArea(t) PROVE Fresh'
  BY <1>4, <1>c DEF projectClickOnTaskArea
<1>5. ASSUME NEW t \in Area, other_comments(t) PROVE Fresh'
  <2> DEFINE c == [n |-> others, mine |-> FALSE]
  <2>1. c \in Comment /\ c.n = others /\ ~c.mine
    BY <1>0 DEF Comment
  <2> HIDE DEF c
  <2>2. IsInjective(log[t]) /\ c \notin Range(log[t])
    BY <1>0, <2>1 DEF Fresh
  <2>3. /\ log' = [log EXCEPT ![t] = Append(@, c)] /\ others' = others + 1
        /\ UNCHANGED <<sends, sendings>>
    BY <1>5 DEF other_comments, c
  <2>4. /\ IsInjective(log'[t]) /\ Range(log'[t]) = Range(log[t]) \union {c}
        /\ \A u \in Area \ {t} : log'[u] = log[u]
    BY <1>f, <2>1, <2>2, <2>3
  <2>5. ASSUME NEW u \in Area
        PROVE  /\ IsInjective(log'[u])
               /\ \A d \in Range(log'[u]) : IF d.mine THEN d.n <= sendings ELSE d.n < others'
               /\ \A a \in sends : a.kind = "post" /\ ~a.done => Own(a) \notin Range(log'[u])
    <3>1. Range(log'[u]) \subseteq Range(log[u]) \union {c} /\ IsInjective(log'[u])
      BY <2>4 DEF Fresh
    <3>2. ASSUME NEW d \in Range(log[u])
          PROVE  IF d.mine THEN d.n <= sendings ELSE d.n < others'
      <4>1. IF d.mine THEN d.n <= sendings ELSE d.n < others
        BY DEF Fresh
      <4> QED
        BY <1>0, <2>3, <4>1
    <3>3. c.n < others'
      BY <1>0, <2>1, <2>3
    <3>4. \A a : Own(a) # c
      BY <2>1 DEF Own
    <3> QED
      BY <2>1, <3>1, <3>2, <3>3, <3>4 DEF Fresh
  <2> QED
    BY <2>3, <2>5 DEF Fresh
<1>7. ASSUME NEW v, setViewState(v) PROVE Fresh'
  BY <1>7, <1>c DEF setViewState
<1>8. ASSUME PostProjectComments PROVE Fresh'
  <2> DEFINE q == Send(1, "post", here, Current)
  <2>1. q.kind = "post" /\ q.n = sendings + 1
    BY <1>a
  <2>2. /\ sends' = sends \union {q} /\ sendings' = sendings + 1 /\ UNCHANGED <<log, others>>
        /\ ~\E a \in sends : a.kind = "post"
    BY <1>8 DEF PostProjectComments, Current
  <2> HIDE DEF q
  <2>3. \A a \in sends' : a.n <= sendings'
    <3>1. \A a \in sends : a.n <= sendings + 1
      BY <1>0
    <3>2. q.n <= sendings + 1
      BY <1>0, <2>1
    <3> QED
      BY <2>2, <3>1, <3>2
  <2>4. \A a, b \in sends' : a.kind = "post" /\ b.kind = "post" => a = b
    BY <2>2
  <2>5. ASSUME NEW u \in Area
        PROVE  /\ \A d \in Range(log[u]) : IF d.mine THEN d.n <= sendings' ELSE d.n < others
               /\ \A a \in sends' : a.kind = "post" /\ ~a.done => Own(a) \notin Range(log[u])
    <3>1. ASSUME NEW d \in Range(log[u])
          PROVE  IF d.mine THEN d.n <= sendings' /\ d.n # q.n ELSE d.n < others
      <4>1. IF d.mine THEN d.n <= sendings ELSE d.n < others
        BY DEF Fresh
      <4> QED
        BY <1>0, <2>1, <2>2, <4>1
    <3>2. Own(q) \notin Range(log[u])
      BY <3>1 DEF Own
    <3>3. \A a \in sends : a.kind # "post"
      BY <2>2
    <3> QED
      BY <2>2, <3>1, <3>2, <3>3
  <2> QED
    BY <2>2, <2>3, <2>4, <2>5 DEF Fresh
<1>9. ASSUME NEW popup \in BOOLEAN, ToggleGenerateMbTilesModalStatus(popup) PROVE Fresh'
  BY <1>9, <1>a, <1>d DEF ToggleGenerateMbTilesModalStatus, effect_open, AskTiles
<1>10. CASE RefreshTiles
  BY <1>10, <1>a, <1>d DEF RefreshTiles, AskTiles
<1>11. CASE generateProjectTiles
  BY <1>11, <1>a, <1>d DEF generateProjectTiles
<1>12. CASE SetPmtileBasemapUrl \/ toggleTileLayer
  BY <1>12, <1>e DEF SetPmtileBasemapUrl, toggleTileLayer
<1>13. ASSUME NEW title \in Base, changeBaseLayer(title) PROVE Fresh'
  BY <1>13, <1>e DEF changeBaseLayer
<1>14. ASSUME NEW a \in sends, NEW ok \in BOOLEAN, serve(a, ok) PROVE Fresh'
  <2> DEFINE b == [a EXCEPT !.done = TRUE, !.ok = ok,
                            !.rows = IF a.kind = "comments" /\ ok THEN log[a.task] ELSE <<>>]
  <2>0. a \in Sending /\ sends' = (sends \ {a}) \union {b}
    BY <1>0, <1>14 DEF serve
  <2>7. b.kind = a.kind /\ b.n = a.n /\ b.done
    BY <2>0 DEF Sending
  <2> HIDE DEF b
  <2>1. /\ b.kind = a.kind /\ b.n = a.n /\ b.done
        /\ sends' = (sends \ {a}) \union {b}
    BY <2>0, <2>7
  <2>2. UNCHANGED <<sendings, others>> /\ ~a.done
    BY <1>14 DEF serve
  <2>3. \A d \in sends' : d.n <= sendings'
    BY <1>0, <2>1, <2>2
  <2>4. \A d, e \in sends' : d.kind = "post" /\ e.kind = "post" => d = e
    BY <2>1 DEF Fresh
  <2>5. CASE log' = log
    BY <2>1, <2>2, <2>3, <2>4, <2>5 DEF Fresh
  <2>6. CASE /\ a.kind = "post" /\ a.task \in Area
             /\ log' = [log EXCEPT ![a.task] = Append(@, Own(a))]
    <3>1. Own(a) \in Comment /\ Own(a).n = a.n /\ Own(a).mine
      BY <1>0 DEF Own, Comment
    <3>2. IsInjective(log[a.task]) /\ Own(a) \notin Range(log[a.task])
      BY <2>2, <2>6 DEF Fresh
    <3>3. /\ IsInjective(log'[a.task])
          /\ Range(log'[a.task]) = Range(log[a.task]) \union {Own(a)}
          /\ \A u \in Area \ {a.task} : log'[u] = log[u]
      BY <1>f, <2>6, <3>1, <3>2
    <3>4. ASSUME NEW u \in Area
          PROVE  /\ IsInjective(log'[u])
                 /\ \A d \in Range(log'[u]) : IF d.mine THEN d.n <= sendings ELSE d.n < others
      <4>1. Range(log'[u]) \subseteq Range(log[u]) \union {Own(a)} /\ IsInjective(log'[u])
        BY <3>3 DEF Fresh
      <4> QED
        BY <1>0, <3>1, <4>1 DEF Fresh
    <3>5. \A d \in sends' : ~(d.kind = "post" /\ ~d.done)
      BY <2>1, <2>4, <2>6
    <3> QED
      BY <2>2, <2>3, <2>4, <3>4, <3>5 DEF Fresh
  <2> QED
    BY <1>0, <1>14, <2>5, <2>6 DEF serve, Own, Sending, Selected
<1>15. ASSUME NEW a \in sends, NEW ok \in BOOLEAN, ProjectById(a, ok) PROVE Fresh'
  BY <1>15, <1>c DEF ProjectById
<1>16. ASSUME NEW a \in sends, NEW ok \in BOOLEAN, GetTilesList(a, ok) PROVE Fresh'
  BY <1>16, <1>e DEF GetTilesList
<1>17. ASSUME NEW a \in sends, NEW ok \in BOOLEAN, GenerateProjectTiles(a, ok) PROVE Fresh'
  <2> DEFINE b == [a EXCEPT !.kind = "tiles"]
  <2>1. b.kind = "tiles" /\ b.n = a.n
    BY <1>0 DEF Sending
  <2>2. /\ sends' = (sends \ {a}) \union {b} \/ sends' = sends \ {a}
        /\ UNCHANGED <<log, others, sendings>>
    BY <1>17 DEF GenerateProjectTiles
  <2> HIDE DEF b
  <2> QED
    BY <1>0, <1>b, <2>1, <2>2
<1>18. ASSUME NEW a \in sends, GetProjectComments(a) \/ CommentPosted(a) PROVE Fresh'
  BY <1>18, <1>e DEF GetProjectComments, CommentPosted
<1> QED
  BY <1>1, <1>2, <1>3, <1>4, <1>5, <1>7, <1>8, <1>9, <1>10, <1>11, <1>12, <1>13, <1>14, <1>15,
     <1>16, <1>17, <1>18 DEF PanelsNext

\* Nothing that CommentsKept speaks of changes.
LEMMA KeptSame ==
  ASSUME CommentsKept, AboutComments(sends)' = AboutComments(sends),
         UNCHANGED <<taskBoundries, selectedTask, mixed, log, projectCommentsList>>,
         \/ UNCHANGED <<here, viewState>>
         \/ here' = NoProject
         \/ viewState' # "comments"
  PROVE  CommentsKept'
BY DEF CommentsKept, Kept, Current, OnPage, Complete

\* The effect of Comments asks anew whenever what it depends on changes.
LEMMA EffectKept ==
  ASSUME PanelsTypeOK, CommentsKept, NEW as, NEW k \in {1, 2}, NEW changed,
         CommentsEffect(as, k, changed), AboutComments(as) = AboutComments(sends),
         UNCHANGED <<log, projectCommentsList>>,
         ~changed /\ viewState' = "comments"
           => UNCHANGED <<here, viewState>> /\ Current' = Current
  PROVE  CommentsKept'
<1> DEFINE q == Send(k, "comments", here', Current')
<1>1. CASE /\ sends' = as /\ mixed' = mixed
           /\ ~(changed /\ here' # NoProject /\ viewState' = "comments")
  <2>1. AboutComments(sends)' = AboutComments(sends)
    BY <1>1 DEF AboutComments
  <2> SUFFICES ASSUME here' # NoProject, viewState' = "comments", ~mixed'
               PROVE  Kept(AboutComments(sends), Current)'
    BY DEF CommentsKept, OnPage
  <2>2. UNCHANGED <<here, viewState>> /\ Current' = Current /\ ~mixed
    BY <1>1
  <2>3. Kept(AboutComments(sends), Current)
    BY <2>2 DEF CommentsKept, OnPage
  <2> QED
    BY <2>1, <2>2, <2>3 DEF Kept, Complete
<1>2. CASE sends' = as \union {q} /\ mixed' = (AboutComments(as) # {})
  <2>1. q.kind = "comments" /\ q.task = Current' /\ ~q.done
    BY DEF Send
  <2> HIDE DEF q
  <2>2. AboutComments(sends)' = AboutComments(as) \union {q}
    BY <1>2, <2>1 DEF AboutComments
  <2>3. ~mixed' => AboutComments(sends)' = {q}
    BY <1>2, <2>2
  <2> QED
    BY <2>1, <2>3 DEF CommentsKept, Kept
<1>3. \/ /\ sends' = as /\ mixed' = mixed
         /\ ~(changed /\ here' # NoProject /\ viewState' = "comments")
      \/ sends' = as \union {q} /\ mixed' = (AboutComments(as) # {})
  BY EffectSends, Zenon
<1> QED
  BY <1>1, <1>2, <1>3

LEMMA KeptStep ==
  ASSUME PanelsTypeOK, Fresh, CommentsKept, [PanelsNext]_panelVars
  PROVE  CommentsKept'
<1>0. /\ sends \subseteq Sending /\ log \in [Area -> Seq(Comment)]
      /\ projectCommentsList \in [of : Selected, rows : Seq(Comment)]
      /\ \A k, kind, p, t : Send(k, kind, p, t).kind = kind
  BY DEF PanelsTypeOK, Send
<1>1. CASE UNCHANGED panelVars
  BY <1>1, KeptSame DEF panelVars, AboutComments
<1>2. ASSUME NEW p \in Project, open_panels(p) PROVE CommentsKept'
  <2> DEFINE as == sends \union {Send(1, "project", p, NoArea)}
  <2>1. AboutComments(as) = AboutComments(sends)
    BY <1>0 DEF AboutComments
  <2>2. CommentsEffect(as, 2, TRUE) /\ UNCHANGED <<log, projectCommentsList>>
    BY <1>2 DEF open_panels
  <2> HIDE DEF as
  <2> QED
    BY <2>1, <2>2, EffectKept
<1>3. CASE leave_panels
  BY <1>3, KeptSame DEF leave_panels, AboutComments
<1>4. ASSUME NEW t \in Area, projectClickOnTaskArea(t) PROVE CommentsKept'
  <2>1. /\ UNCHANGED <<here, taskBoundries>> /\ selectedTask' = t
        /\ viewState' = "comments" => viewState = "comments"
    BY <1>4 DEF projectClickOnTaskArea
  <2>2. t = selectedTask => Current' = Current
    BY <2>1 DEF Current
  <2> QED
    BY <1>4, <2>1, <2>2, EffectKept DEF projectClickOnTaskArea
<1>5. ASSUME NEW t \in Area, other_comments(t) PROVE CommentsKept'
  <2> DEFINE c == [n |-> others, mine |-> FALSE]
  <2>1. c \in Comment /\ ~c.mine
    BY DEF Comment, PanelsTypeOK
  <2> HIDE DEF c
  <2>2. log' = [log EXCEPT ![t] = Append(@, c)]
    BY <1>5 DEF other_comments, c
  <2>3. log'[t] = Append(log[t], c) /\ \A u \in Area \ {t} : log'[u] = log[u]
    BY <1>0, <2>2
  <2>4. Range(log[t]) \subseteq Range(log'[t]) /\ OwnOf(log'[t]) = OwnOf(log[t])
    <3>1. log[t] \in Seq(Comment)
      BY <1>0
    <3>2. /\ Range(Append(log[t], c)) = Range(log[t]) \union {c}
          /\ OwnOf(Append(log[t], c)) = OwnOf(log[t]) \union (IF c.mine THEN {c.n} ELSE {})
      BY <2>1, <3>1, Appended
    <3> QED
      BY <2>1, <2>3, <3>2
  <2>5. \A list : \A u \in Area : Complete(list, u) => Complete(list, u)'
    BY <2>3, <2>4, ListsKept
  <2>6. /\ AboutComments(sends)' = AboutComments(sends) /\ Current' = Current
        /\ UNCHANGED <<here, viewState, mixed, projectCommentsList>>
    BY <1>5 DEF other_comments, AboutComments, Current
  <2> SUFFICES ASSUME Kept(AboutComments(sends), Current)
               PROVE  Kept(AboutComments(sends), Current)'
    BY <2>6 DEF CommentsKept, OnPage
  <2> QED
    BY <2>5, <2>6 DEF Kept
<1>6. CASE close_popup
  BY <1>6 DEF close_popup, CommentsKept
<1>7. ASSUME NEW v, setViewState(v) PROVE CommentsKept'
  BY <1>7, EffectKept DEF setViewState
<1>8. ASSUME PostProjectComments PROVE CommentsKept'
  <2> DEFINE q == Send(1, "post", here, Current)
  <2>1. q.kind = "post" /\ q.task = Current /\ ~q.done
    BY DEF Send
  <2>2. /\ sends' = sends \union {q} /\ mixed' = (mixed \/ AboutComments(sends) # {})
        /\ OnPage /\ viewState = "comments"
    BY <1>8, Zenon DEF PostProjectComments, Current
  <2>3. UNCHANGED <<here, viewState, taskBoundries, selectedTask, log, projectCommentsList>>
    BY <1>8 DEF PostProjectComments
  <2> HIDE DEF q
  <2> SUFFICES ASSUME ~mixed'
               PROVE  Kept(AboutComments(sends), Current)'
    BY DEF CommentsKept
  <2>4. AboutComments(sends) = {} /\ Kept(AboutComments(sends), Current)
    BY <2>2 DEF CommentsKept
  <2>5. AboutComments(sends)' = {q} /\ Current' = Current
    BY <2>1, <2>2, <2>3, <2>4 DEF AboutComments, Current
  <2>6. /\ projectCommentsList.of = Current /\ Current \in Area
        /\ Complete(projectCommentsList.rows, Current)
    BY <2>4 DEF Kept
  <2> QED
    BY <2>1, <2>3, <2>5, <2>6 DEF Kept, Complete
<1>9. ASSUME NEW popup \in BOOLEAN, ToggleGenerateMbTilesModalStatus(popup) PROVE CommentsKept'
  <2>1. AboutComments(sends)' = AboutComments(sends)
    BY <1>0, <1>9 DEF ToggleGenerateMbTilesModalStatus, effect_open, AskTiles, AboutComments
  <2> QED
    BY <1>9, <2>1, KeptSame DEF ToggleGenerateMbTilesModalStatus
<1>10. CASE RefreshTiles
  <2>1. AboutComments(sends)' = AboutComments(sends)
    BY <1>0, <1>10 DEF RefreshTiles, AskTiles, AboutComments
  <2> QED
    BY <1>10, <2>1, KeptSame DEF RefreshTiles
<1>11. CASE generateProjectTiles
  <2>1. AboutComments(sends)' = AboutComments(sends)
    BY <1>0, <1>11 DEF generateProjectTiles, AboutComments
  <2> QED
    BY <1>11, <2>1, KeptSame DEF generateProjectTiles
<1>12. CASE close_dialog \/ SetPmtileBasemapUrl \/ toggleTileLayer
  BY <1>12, KeptSame DEF close_dialog, SetPmtileBasemapUrl, toggleTileLayer, AboutComments
<1>13. ASSUME NEW title \in Base, changeBaseLayer(title) PROVE CommentsKept'
  BY <1>13, KeptSame DEF changeBaseLayer, AboutComments
<1>14. ASSUME NEW a \in sends, NEW ok \in BOOLEAN, serve(a, ok) PROVE CommentsKept'
  <2>a. PICK b : b = [a EXCEPT !.done = TRUE, !.ok = ok,
                        !.rows = IF a.kind = "comments" /\ ok THEN log[a.task] ELSE <<>>]
    OBVIOUS
  <2>0. a \in Sending /\ sends' = (sends \ {a}) \union {b}
    BY <1>0, <1>14, <2>a DEF serve
  <2>1. /\ b.kind = a.kind /\ b.n = a.n /\ b.done /\ b.ok = ok /\ b.task = a.task
        /\ a.kind = "comments" /\ ok => b.rows = log[a.task]
    BY <2>0, <2>a DEF Sending
  <2>2. /\ UNCHANGED <<here, viewState, mixed, projectCommentsList>> /\ Current' = Current
        /\ a \in AboutComments(sends) /\ ~a.done /\ (ok => a.task \in Area)
    BY <1>14, <2>0 DEF serve, Current, Sending, Selected
  <2> SUFFICES ASSUME Kept(AboutComments(sends), Current)
               PROVE  Kept(AboutComments(sends), Current)'
    BY <2>2 DEF CommentsKept, OnPage
  <2>3. a.task = Current /\ AboutComments(sends) = {a}
    BY <2>2 DEF Kept
  <2>4. AboutComments(sends)' = {b}
    BY <2>0, <2>1, <2>2, <2>3 DEF AboutComments
  <2>5. CASE a.kind = "comments"
    <3>1. log' = log
      BY <1>14, <2>5 DEF serve
    <3>2. ok => Complete(b.rows, Current)'
      BY <2>1, <2>2, <2>3, <2>5, <3>1 DEF Complete, Fresh
    <3> QED
      BY <2>1, <2>2, <2>3, <2>4, <2>5, <3>2 DEF Kept
  <2>6. CASE a.kind = "post"
    <3>1. /\ projectCommentsList.of = Current /\ Current \in Area
          /\ Complete(projectCommentsList.rows, Current)
      BY <2>2, <2>3, <2>6 DEF Kept
    <3>2. ok => Complete(Append(projectCommentsList.rows, Own(b)), Current)'
      <4> SUFFICES ASSUME ok
                   PROVE  Complete(Append(projectCommentsList.rows, Own(b)), Current)'
        OBVIOUS
      <4>1. /\ Own(b) = Own(a) /\ Own(a) \in Comment /\ Own(a).mine /\ Own(a).n = a.n
        BY <2>0, <2>1 DEF Own, Comment, Sending
      <4>2. log'[Current] = Append(log[Current], Own(a))
        BY <1>0, <1>14, <2>3, <2>6, <3>1 DEF serve, Own
      <4>3. Own(a) \notin Range(log[Current])
        BY <2>2, <2>6, <3>1 DEF Fresh
      <4>4. /\ Range(log'[Current]) = Range(log[Current]) \union {Own(a)}
            /\ OwnOf(log'[Current]) = OwnOf(log[Current]) \union {a.n}
        BY <1>0, <3>1, <4>1, <4>2, Appended
      <4>5. projectCommentsList.rows \in Seq(Comment)
        BY <1>0
      <4>6. Own(a) \notin Range(projectCommentsList.rows)
        BY <3>1, <4>3 DEF Complete
      <4>7. /\ IsInjective(Append(projectCommentsList.rows, Own(a)))
            /\ Range(Append(projectCommentsList.rows, Own(a)))
                 = Range(projectCommentsList.rows) \union {Own(a)}
            /\ OwnOf(Append(projectCommentsList.rows, Own(a)))
                 = OwnOf(projectCommentsList.rows) \union {a.n}
        BY <3>1, <4>1, <4>5, <4>6, Appended DEF Complete
      <4> QED
        BY <2>2, <3>1, <4>1, <4>4, <4>7 DEF Complete
    <3> QED
      BY <2>1, <2>2, <2>3, <2>4, <2>6, <3>1, <3>2 DEF Kept
  <2> QED
    BY <2>2, <2>5, <2>6 DEF AboutComments
<1>15. ASSUME NEW a \in sends, NEW ok \in BOOLEAN, ProjectById(a, ok) PROVE CommentsKept'
  <2>1. AboutComments(sends \ {a}) = AboutComments(sends)
    BY <1>15 DEF ProjectById, AboutComments
  <2>2. /\ UNCHANGED <<here, viewState, selectedTask, log, projectCommentsList>>
        /\ CommentsEffect(sends \ {a}, 1, Current' # Current)
    BY <1>15 DEF ProjectById, Current
  <2> QED
    BY <2>1, <2>2, EffectKept
<1>16. ASSUME NEW a \in sends, NEW ok \in BOOLEAN, GetTilesList(a, ok) PROVE CommentsKept'
  BY <1>16, KeptSame DEF GetTilesList, AboutComments
<1>17. ASSUME NEW a \in sends, NEW ok \in BOOLEAN, GenerateProjectTiles(a, ok)
       PROVE  CommentsKept'
  <2> DEFINE b == [a EXCEPT !.kind = "tiles"]
  <2>1. a.kind = "generate" /\ b.kind = "tiles"
    BY <1>0, <1>17 DEF GenerateProjectTiles, Sending
  <2>2. sends' = (sends \ {a}) \union {b} \/ sends' = sends \ {a}
    BY <1>17 DEF GenerateProjectTiles
  <2> HIDE DEF b
  <2>3. AboutComments(sends)' = AboutComments(sends)
    BY <2>1, <2>2 DEF AboutComments
  <2> QED
    BY <1>17, <2>3, KeptSame DEF GenerateProjectTiles
<1>18. ASSUME NEW a \in sends, GetProjectComments(a) \/ CommentPosted(a) PROVE CommentsKept'
  <2>1. /\ UNCHANGED <<here, viewState, log>> /\ Current' = Current
        /\ sends' = sends \ {a} /\ mixed' = (mixed \/ ~a.ok)
        /\ a \in AboutComments(sends) /\ a.done
    BY <1>18, Zenon DEF GetProjectComments, CommentPosted, AboutComments, Current
  <2> SUFFICES ASSUME OnPage, viewState = "comments", ~mixed'
               PROVE  Kept(AboutComments(sends), Current)'
    BY <2>1 DEF CommentsKept, OnPage
  <2>2. a.ok /\ Kept(AboutComments(sends), Current)
    BY <2>1 DEF CommentsKept
  <2>3. AboutComments(sends)' = {} /\ AboutComments(sends) = {a} /\ a.task = Current
    BY <2>1, <2>2 DEF AboutComments, Kept
  <2>4. CASE GetProjectComments(a)
    <3>1. projectCommentsList' = [of |-> a.task, rows |-> a.rows] /\ a.kind = "comments"
      BY <2>2, <2>4 DEF GetProjectComments
    <3>2. Current \in Area /\ Complete(a.rows, Current)
      BY <2>1, <2>2, <2>3, <3>1 DEF Kept
    <3> QED
      BY <2>1, <2>3, <3>1, <3>2 DEF Kept, Complete
  <2>5. CASE CommentPosted(a)
    <3>1. /\ projectCommentsList' = [projectCommentsList EXCEPT
                                       !.rows = Append(projectCommentsList.rows, Own(a))]
          /\ a.kind = "post"
      BY <2>2, <2>5 DEF CommentPosted, UpdateProjectCommentsList, Own
    <3>2. /\ projectCommentsList.of = Current /\ Current \in Area
          /\ Complete(Append(projectCommentsList.rows, Own(a)), Current)
      BY <2>1, <2>2, <2>3, <3>1 DEF Kept
    <3>3. /\ projectCommentsList'.of = projectCommentsList.of
          /\ projectCommentsList'.rows = Append(projectCommentsList.rows, Own(a))
      BY <1>0, <3>1
    <3> QED
      BY <2>1, <2>3, <3>2, <3>3 DEF Kept, Complete
  <2> QED
    BY <1>18, <2>4, <2>5
<1> QED
  BY <1>1, <1>2, <1>3, <1>4, <1>5, <1>6, <1>7, <1>8, <1>9, <1>10, <1>11, <1>12, <1>13, <1>14,
     <1>15, <1>16, <1>17, <1>18 DEF PanelsNext

LEMMA KeptFits ==
  ASSUME CommentsKept
  PROVE  CommentsFit
<1> SUFFICES ASSUME OnPage, viewState = "comments", ~mixed, AboutComments(sends) = {}
             PROVE  /\ projectCommentsList.of = selectedTask /\ selectedTask \in Area
                    /\ Complete(projectCommentsList.rows, selectedTask)
  BY DEF CommentsFit, Complete
<1>1. /\ projectCommentsList.of = Current /\ Current \in Area
      /\ Complete(projectCommentsList.rows, Current)
  BY DEF CommentsKept, Kept
<1>2. Current = selectedTask
  BY <1>1, PanelsAssumption DEF Current, currentStatus
<1> QED
  BY <1>1, <1>2

-----------------------------------------------------------------------------
LEMMA PanelsStart ==
  PanelsInit => PanelsTypeOK /\ MenuFits /\ Listed /\ Fresh /\ CommentsKept
<1> SUFFICES ASSUME PanelsInit
             PROVE  PanelsTypeOK /\ MenuFits /\ Listed /\ Fresh /\ CommentsKept
  OBVIOUS
<1>1. /\ here \in Somewhere /\ taskBoundries \in Somewhere /\ projectInfo \in Somewhere
      /\ customBasemapUrl \in Somewhere /\ selectedTask \in Selected
      /\ viewState \in {"project_info", "task_activity", "comments", "instructions"}
      /\ projectCommentsList \in [of : Selected, rows : Seq(Comment)]
      /\ sends \subseteq Sending /\ sendings \in Nat /\ others \in Nat
  BY DEF PanelsInit, Somewhere, Selected
<1>2. taskModalStatus \in BOOLEAN /\ mixed \in BOOLEAN /\ strayed \in BOOLEAN
  BY Zenon DEF PanelsInit
<1>3. log \in [Area -> Seq(Comment)] /\ \A t \in Area : log[t] = <<>>
  BY DEF PanelsInit
<1>4. /\ tiles \in [open : BOOLEAN, of : Somewhere, loading : BOOLEAN]
      /\ layers \in [base : Base \union {"nothing"}, custom : BOOLEAN]
      /\ menu \in [active : Base, tms : BOOLEAN, hasPMTile : BOOLEAN, tile : BOOLEAN]
  BY DEF PanelsInit, Somewhere, Base
<1>5. PanelsTypeOK
  BY <1>1, <1>2, <1>3, <1>4 DEF PanelsTypeOK
<1>6. MenuFits /\ Listed /\ CommentsKept
  BY DEF PanelsInit, MenuFits, Listed, CommentsKept, OnPage
<1>7. Fresh
  <2>1. \A t \in Area : IsInjective(log[t]) /\ Range(log[t]) = {}
    BY <1>3 DEF IsInjective, Range
  <2>2. sends = {}
    BY DEF PanelsInit
  <2> QED
    BY <2>1, <2>2 DEF Fresh
<1> QED
  BY <1>5, <1>6, <1>7

\* What the tab keeps from one project page to the next is type correct.
THEOREM PanelsTypeCorrect == PanelsSpec => []PanelsTypeOK
<1>1. PanelsInit => PanelsTypeOK
  BY PanelsStart
<1>2. PanelsTypeOK /\ [PanelsNext]_panelVars => PanelsTypeOK'
  BY PanelsTypeStep
<1> QED
  BY <1>1, <1>2, PTL DEF PanelsSpec

\* The menu never marks a layer the map does not show, however projects and basemaps follow.
THEOREM MenuFitsHolds == PanelsSpec => []MenuFits
<1>1. PanelsInit => MenuFits
  BY PanelsStart
<1>2. PanelsTypeOK /\ MenuFits /\ [PanelsNext]_panelVars => MenuFits'
  BY MenuStep
<1> QED
  BY <1>1, <1>2, PanelsTypeCorrect, PTL DEF PanelsSpec

\* The dialog ends up with the basemaps of the project in the address.
THEOREM TilesFitHolds == PanelsSpec => []TilesFit
<1>1. PanelsInit => Listed
  BY PanelsStart
<1>2. PanelsTypeOK /\ Listed /\ [PanelsNext]_panelVars => Listed'
  BY ListedStep
<1>3. Listed => TilesFit
  BY DEF Listed, TilesFit, AboutTiles
<1> QED
  BY <1>1, <1>2, <1>3, PanelsTypeCorrect, PTL DEF PanelsSpec

\* The panel ends up with the comments of the selected task, each once, the user's own among
\* them, for any number of tasks, comments and changes of the page.
THEOREM CommentsFitHolds == PanelsSpec => []CommentsFit
<1>1. PanelsInit => Fresh /\ CommentsKept
  BY PanelsStart
<1>2. PanelsTypeOK /\ Fresh /\ CommentsKept /\ [PanelsNext]_panelVars
        => Fresh' /\ CommentsKept'
  BY FreshStep, KeptStep
<1>3. CommentsKept => CommentsFit
  BY KeptFits
<1> QED
  BY <1>1, <1>2, <1>3, PanelsTypeCorrect, PTL DEF PanelsSpec

-----------------------------------------------------------------------------
(* The stores together. *)

\* The types of all the stores, in the composition of them that is checked.
THEOREM StoresTypeCorrect == MCSpec => []StoresTypeOK
<1>1. MCInit => Init /\ OrgPagesInit /\ ManageInit /\ UsersInit /\ PanelsInit
  BY DEF MCInit
<1>2. [MCNext]_all => /\ [Next]_vars /\ [OrgPagesNext]_orgPageVars /\ [ManageNext]_managePageVars
                      /\ [UsersNext]_manageUsersVars /\ [PanelsNext]_panelVars
  BY Zenon DEF MCNext, all
<1>3. MCSpec => Spec /\ OrgPagesSpec /\ ManageSpec /\ UsersSpec /\ PanelsSpec
  BY <1>1, <1>2, PTL DEF MCSpec, Spec, OrgPagesSpec, ManageSpec, UsersSpec, PanelsSpec
<1>4. /\ TypeOK /\ OrgPagesTypeOK /\ ManageTypeOK /\ ManageUsersTypeOK /\ PanelsTypeOK
      => StoresTypeOK
  BY DEF StoresTypeOK
<1> QED
  BY <1>3, <1>4, StoreTypeCorrect, OrgPagesTypeCorrect, ManageTypeCorrect, UsersTypeCorrect,
     PanelsTypeCorrect, PTL
=============================================================================

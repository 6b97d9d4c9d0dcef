---------------------------- MODULE ManageUsers ----------------------------
(***************************************************************************)
(* The page of the management frontend on which administrators look for    *)
(* users and change their roles, with the table users of the backend.      *)
(*                                                                         *)
(* Every change of the search or of the page asks for a list; a change of  *)
(* role is written into the list that is shown when its answer comes.      *)
(* Answers are applied in the order in which they come.                    *)
(***************************************************************************)
EXTENDS Integers, Sequences

CONSTANTS
    Account, Role,      \* users.id, users.role
    Text, NoText,       \* what is searched for; the empty text
    Found,              \* for each text, the users it finds, the newest first
    results_per_page,
    MaxCalls, MaxForeign  \* bounds: requests; roles changed by other administrators

ASSUME UsersAssumption ==
  /\ NoText \in Text
  /\ Account # {} /\ Role # {}
  /\ Found \in [Text -> Seq(Account)]
  /\ results_per_page \in Nat \ {0}

VARIABLES
    roles,              \* table users
    mounted,            \* the page is shown
    input, filter,      \* text that the timer of the search will hand over; the one in force
    pageIndex,
    userList, userListLoading,   \* of the store
    calls,              \* requests without an answer
    called, foreign,    \* counters of the bounds
    causes              \* history: why the list need not be exact

manageUsersVars == <<roles, mounted, input, filter, pageIndex, userList, userListLoading, calls,
                     called, foreign, causes>>

-----------------------------------------------------------------------------
NoSuch == [search |-> NoText, page |-> -1]       \* of no list

Query == [search : Text, page : Nat] \union {NoSuch}

Row_of(u) == [id |-> u, role |-> roles[u]]

UserRow == [id : Account, role : Role]

\* One record for both kinds; done tells whether the backend has executed it.
Call == [n : Nat, kind : {"list", "patch"}, query : Query, user : UserRow,
         rows : SUBSET UserRow, done : BOOLEAN, ok : BOOLEAN]

NoList == [of |-> NoSuch, results |-> {}]

ManageUsersTypeOK ==
  /\ roles \in [Account -> Role]
  /\ mounted \in BOOLEAN
  /\ input \in Text \union {"none"} /\ filter \in Text /\ pageIndex \in Nat
  /\ userList \in [of : Query, results : SUBSET UserRow]
  /\ userListLoading \in BOOLEAN
  /\ calls \subseteq Call
  /\ called \in Nat /\ foreign \in Nat
  /\ causes \subseteq {"overlap", "order", "lost", "foreign"}

Lists == {c \in calls : c.kind = "list"}
Patches == {c \in calls : c.kind = "patch"}

\* get_paginated_users: a page after the last one is empty.
get_paginated_users(q) ==
  LET users == Found[q.search]
      start == q.page * results_per_page IN
  {Row_of(users[i]) : i \in {k \in DOMAIN users : start < k /\ k <= start + results_per_page}}

\* The effect on filter and pagination.
GetUserList(search, page) ==
  /\ called < MaxCalls
  /\ calls' = calls \union {[n |-> called + 1, kind |-> "list",
                             query |-> [search |-> search, page |-> page],
                             user |-> CHOOSE r \in UserRow : TRUE, rows |-> {},
                             done |-> FALSE, ok |-> TRUE]}
  /\ called' = called + 1
  /\ userListLoading' = TRUE

Overlap(others) == IF others = {} THEN {} ELSE {"overlap"}

-----------------------------------------------------------------------------
(* The administrator. *)

open_users ==
  /\ ~mounted
  /\ mounted' = TRUE
  /\ input' = "none" /\ filter' = NoText /\ pageIndex' = 0
  /\ GetUserList(NoText, 0)
  /\ causes' = IF calls = {} THEN {} ELSE causes \union Overlap(Patches)
  /\ UNCHANGED <<roles, userList, foreign>>

leave_users ==
  /\ mounted /\ mounted' = FALSE
  /\ input' = "none"
  /\ UNCHANGED <<roles, filter, pageIndex, userList, userListLoading, calls, called,
                 foreign, causes>>

\* handleChange of useDebouncedInput: every change starts the timer anew.
handleChangeData(t) ==
  /\ mounted /\ input # t
  /\ input' = t
  /\ UNCHANGED <<roles, mounted, filter, pageIndex, userList, userListLoading, calls, called,
                 foreign, causes>>

\* The timer: a new filter, on the page of the list that is shown.
setFilter ==
  /\ mounted /\ input # "none"
  /\ filter' = input /\ input' = "none"
  /\ GetUserList(input, pageIndex)
  /\ causes' = causes \union Overlap(Patches)
  /\ UNCHANGED <<roles, mounted, pageIndex, userList, foreign>>

\* The number of pages is that of the list in the store.
page_count ==
  (Len(Found[userList.of.search]) + results_per_page - 1) \div results_per_page

\* Buttons, numbers and Go to Page: the table keeps the page within the number of pages.
setPageIndex(p) ==
  /\ mounted /\ ~userListLoading
  /\ userList # NoList /\ p < page_count
  /\ pageIndex' = p
  /\ GetUserList(filter, p)
  /\ causes' = causes \union Overlap(Patches)
  /\ UNCHANGED <<roles, mounted, input, filter, userList, foreign>>

\* updateRole: for the role the list shows nothing is sent.
updateRole(row, role) ==
  /\ mounted /\ ~userListLoading
  /\ row \in userList.results /\ row.role # role
  /\ called < MaxCalls
  /\ calls' = calls \union {[n |-> called + 1, kind |-> "patch", query |-> NoSuch,
                             user |-> [id |-> row.id, role |-> role], rows |-> {},
                             done |-> FALSE, ok |-> TRUE]}
  /\ called' = called + 1
  /\ causes' = causes \union Overlap(calls)
  /\ UNCHANGED <<roles, mounted, input, filter, pageIndex, userList, userListLoading, foreign>>

-----------------------------------------------------------------------------
(* The backend. *)

Executed(c, d) == calls' = (calls \ {c}) \union {d}

read_users(c, ok) ==
  /\ c.kind = "list" /\ ~c.done
  /\ Executed(c, [c EXCEPT !.done = TRUE, !.ok = ok, !.rows = get_paginated_users(c.query)])
  /\ UNCHANGED <<roles, mounted, input, filter, pageIndex, userList, userListLoading, called,
                 foreign, causes>>

\* update_existing_user: refused, executed, or executed and the answer is lost.
update_existing_user(c, applied, ok) ==
  /\ c.kind = "patch" /\ ~c.done
  /\ ok => applied
  /\ roles' = IF applied THEN [roles EXCEPT ![c.user.id] = c.user.role] ELSE roles
  /\ Executed(c, [c EXCEPT !.done = TRUE, !.ok = ok])
  /\ causes' = IF applied /\ ~ok THEN causes \union {"lost"} ELSE causes
  /\ UNCHANGED <<mounted, input, filter, pageIndex, userList, userListLoading, called, foreign>>

other_admin(u, role) ==
  /\ foreign < MaxForeign /\ roles[u] # role
  /\ roles' = [roles EXCEPT ![u] = role]
  /\ foreign' = foreign + 1
  /\ causes' = causes \union {"foreign"}
  /\ UNCHANGED <<mounted, input, filter, pageIndex, userList, userListLoading, calls, called>>

-----------------------------------------------------------------------------
(* Answers. *)

\* Mutant of UpdateUserList: the new row is added to the list.
adds_user(user) == [userList EXCEPT !.results = @ \union {user}]

\* The reducer: the user is replaced where the list has him.
UpdateUserList(user) ==
  [userList EXCEPT !.results = {IF r.id = user.id THEN user ELSE r : r \in @}]

\* GetUserListService: whichever list comes last is shown, and the first that comes ends the
\* loading.
SetUserList(c) ==
  /\ c.kind = "list" /\ c.done
  /\ calls' = calls \ {c}
  /\ userList' = IF c.ok THEN [of |-> c.query, results |-> c.rows] ELSE userList
  /\ userListLoading' = FALSE
  /\ causes' = IF ~c.ok \/ Lists # {c} THEN causes \union {"order"} ELSE causes
  /\ UNCHANGED <<roles, mounted, input, filter, pageIndex, called, foreign>>

UpdateUserRole(c) ==
  /\ c.kind = "patch" /\ c.done
  /\ calls' = calls \ {c}
  /\ userList' = IF c.ok THEN UpdateUserList(c.user) ELSE userList
  /\ UNCHANGED <<roles, mounted, input, filter, pageIndex, userListLoading, called, foreign,
                 causes>>

-----------------------------------------------------------------------------
UsersInit ==
  /\ roles \in [Account -> Role]
  /\ mounted = FALSE
  /\ input = "none" /\ filter = NoText /\ pageIndex = 0
  /\ userList = NoList /\ userListLoading = FALSE
  /\ calls = {} /\ called = 0 /\ foreign = 0 /\ causes = {}

UsersNext ==
  \/ open_users \/ leave_users
  \/ \E t \in Text : handleChangeData(t)
  \/ setFilter
  \/ \E p \in 0..(page_count - 1) : setPageIndex(p)
  \/ \E row \in userList.results, role \in Role : updateRole(row, role)
  \/ \E c \in calls :
       \/ \E ok \in BOOLEAN : read_users(c, ok)
       \/ \E applied, ok \in BOOLEAN : update_existing_user(c, applied, ok)
       \/ SetUserList(c) \/ UpdateUserRole(c)
  \/ \E u \in Account, role \in Role : other_admin(u, role)

UsersSpec == UsersInit /\ [][UsersNext]_manageUsersVars

-----------------------------------------------------------------------------
(* Properties. *)

\* When nothing is under way the list is the one of the search and of the page, with the roles
\* of the backend, unless a change of role was under way together with another request, two
\* lists were or one failed, the answer to a change was lost, or another administrator changed
\* a role.
ListExact ==
  mounted /\ calls = {} /\ causes = {} =>
    /\ userList.of = [search |-> filter, page |-> pageIndex]
    /\ userList.results = get_paginated_users(userList.of)
=============================================================================

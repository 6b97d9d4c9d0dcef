------------------------------ MODULE Sessions ------------------------------
(***************************************************************************)
(* Who a browser is signed in as.  The tabs of the management frontend and *)
(* of the mapper frontend share one set of cookies; the backend keeps no   *)
(* session, every request is judged by the tokens in the cookies it was    *)
(* sent with, and every answer changes the cookies when it arrives.  What  *)
(* a tab shows as its user is a copy made when it was loaded.              *)
(*                                                                         *)
(* Lifetimes are what is left of them: a token is valid while exp > 0, a   *)
(* cookie is kept by the browser while until > 0.  A request is handled by *)
(* the server when it is sent; its answer is in flight until it is         *)
(* received or lost.  The cookie fmtm_temp_refresh is left out: it is      *)
(* written and cleared with fmtm_temp and never read.                      *)
(***************************************************************************)
EXTENDS Naturals

CONSTANTS
    Manager, Mapper,    \* tabs of the two frontends
    User,               \* people with an OSM account
    Namesake,           \* the ones whose OSM name another account of FMTM has
    SvcUser,            \* svcfmtm, whom contributions without a login are credited to
    Nobody,             \* no user
    None,               \* no cookie
    Day, Week           \* lifetimes, in ticks of the clock

ASSUME SessionsAssumption ==
  /\ Manager \intersect Mapper = {}
  /\ Namesake \subseteq User
  /\ SvcUser \notin User /\ Nobody \notin User \union {SvcUser}
  /\ Day \in Nat \ {0} /\ Week \in Nat /\ Day <= Week
  /\ None \notin [exp : 0..Week, until : 1..Week]
  /\ None \notin [who : User \union {SvcUser}, exp : 0..Day, until : 1..Day]

VARIABLES
    jar,        \* the browser's cookies
    users,      \* table users: who has a row
    tab,        \* per tab: where its script is and the user it shows
    kept,       \* localStorage: authDetails of the management frontend
    calls,      \* answers in flight
    sure,       \* history, per tab: nothing has changed the session behind its back
    signed,     \* history: whom the last login or logout that was answered left signed in
    crossed     \* history: a refresh sent before that login or logout was answered after it

vars == <<jar, users, tab, kept, calls, sure, signed, crossed>>

-----------------------------------------------------------------------------
Tab == Manager \union Mapper

Cookie == [who : User \union {SvcUser}, exp : 0..Day, until : 1..Day] \union {None}

Jar == [main : Cookie, temp : Cookie,
        refresh : [exp : 0..Week, until : 1..Week] \union {None},
        osm : User \union {Nobody}]

Empty == [main |-> None, temp |-> None, refresh |-> None, osm |-> Nobody]

\* "sets" is what the answer does to the cookies; "nothing" with who = Nobody is an error.
Call == [tab : Tab, kind : {"refresh", "me", "logout", "temp", "callback"},
         sets : {"main", "temp", "login", "clear", "nothing"},
         who : User \union {SvcUser, Nobody}, exp : 0..Day, late : BOOLEAN]

TypeOK ==
  /\ jar \in Jar
  /\ users \subseteq User
  /\ tab \in [Tab -> [pc : {"closed", "refresh", "me", "ready", "callback", "error"},
                      shown : User \union {Nobody}]]
  /\ kept \in User \union {Nobody}
  /\ calls \subseteq Call
  /\ sure \in [Tab -> BOOLEAN]
  /\ signed \in User \union {Nobody}
  /\ crossed \in BOOLEAN

Init ==
  /\ jar = Empty
  /\ users = {}
  /\ tab = [t \in Tab |-> [pc |-> "closed", shown |-> Nobody]]
  /\ kept = Nobody
  /\ calls = {}
  /\ sure = [t \in Tab |-> FALSE]
  /\ signed = Nobody
  /\ crossed = FALSE

-----------------------------------------------------------------------------
(* The backend. *)

\* verify_jwt_token.
holder(cookie) == IF cookie.exp > 0 THEN cookie.who ELSE Nobody

\* login_required: only the main cookie; Nobody is a 401.
login_required(j) == IF j.main = None THEN Nobody ELSE holder(j.main)

(***************************************************************************)
(* mapper_login_required: the main cookie, else the temporary one, else    *)
(* the service user.  A cookie that is there but whose token is not valid  *)
(* is a 401, whatever the other cookie says.                               *)
(***************************************************************************)
mapper_login_required(j) ==
  IF j.main # None THEN holder(j.main)
  ELSE IF j.temp # None THEN holder(j.temp) ELSE SvcUser

Refused == [sets |-> "nothing", who |-> Nobody]

\* refresh_cookies, once its caller is authenticated: an access token that has expired
\* never gets here, although it would be accepted.
can_refresh(j) == j.main # None /\ j.refresh # None /\ j.refresh.exp > 0

refresh_management(j) ==
  IF login_required(j) # Nobody /\ can_refresh(j)
  THEN [sets |-> "main", who |-> j.main.who] ELSE Refused

\* refresh_mapper_token: the login if there is one, else temporary cookies for current_user.
refresh_mapper(j) ==
  IF mapper_login_required(j) = Nobody THEN Refused
  ELSE IF can_refresh(j) THEN [sets |-> "main", who |-> j.main.who]
  ELSE [sets |-> "temp", who |-> mapper_login_required(j)]

\* get_or_create_user: the upsert is refused if another row has the username.
registers(u) == u # Nobody /\ ~(u \in Namesake \ users)

\* my_data.
me(j) ==
  IF registers(login_required(j)) THEN [sets |-> "nothing", who |-> login_required(j)]
  ELSE Refused

\* users after my_data.
users_after_me(j) == IF registers(login_required(j)) THEN users \union {login_required(j)} ELSE users

InFlight(t, kind, answer) ==
  [tab |-> t, kind |-> kind, sets |-> answer.sets, who |-> answer.who, exp |-> Day, late |-> FALSE]

\* The mapper's refreshCookies and its call to /auth/me, with the cookies j.
AskRefresh(t, j) == InFlight(t, "refresh", IF t \in Manager THEN refresh_management(j) ELSE refresh_mapper(j))
AskMe(t, j)      == InFlight(t, "me", me(j))
AskTemp(t, j)    == InFlight(t, "temp", refresh_mapper(j))

-----------------------------------------------------------------------------
(* The cookies. *)

\* Mutant of logout: the main cookie is not among the ones that are reset.
logout_kept(j) == [j EXCEPT !.refresh = None, !.temp = None, !.osm = Nobody]

logout(j) == Empty

\* handle_osm_callback, set_cookies: the temporary cookies stay.
handle_osm_callback(j, c) ==
  [j EXCEPT !.main = [who |-> c.who, exp |-> c.exp, until |-> Day],
            !.refresh = [exp |-> c.exp + (Week - Day), until |-> Week],
            !.osm = c.who]

\* refresh_cookies: both new tokens are valid for a day; the temporary cookies are reset.
refresh_cookies(j, c) ==
  [j EXCEPT !.main = [who |-> c.who, exp |-> c.exp, until |-> Day],
            !.refresh = [exp |-> c.exp, until |-> Week], !.temp = None]

\* The cookies once the answer c has arrived.
stored(j, c) ==
  CASE c.sets = "main"    -> refresh_cookies(j, c)
    [] c.sets = "temp"    -> [j EXCEPT !.temp = [who |-> c.who, exp |-> c.exp, until |-> Day]]
    [] c.sets = "login"   -> handle_osm_callback(j, c)
    [] c.sets = "clear"   -> logout(j)
    [] c.sets = "nothing" -> j

\* What the history keeps of it: a login or logout makes the refreshes in flight late,
\* and another user, or none, unsettles what the other tabs show.
Arrives(c) ==
  LET ends == c.sets \in {"login", "clear"} IN
  /\ jar' = stored(jar, c)
  /\ signed' = IF c.sets = "login" THEN c.who ELSE IF c.sets = "clear" THEN Nobody ELSE signed
  /\ crossed' = IF ends THEN FALSE ELSE crossed \/ (c.late /\ c.sets = "main")

\* The calls left once c is answered and the calls "sent" have gone out.
Sends(c, sent) ==
  calls' = {[d EXCEPT !.late = @ \/ c.sets \in {"login", "clear"}] : d \in calls \ {c}} \union sent

Unsettles(c) ==
  sure' = [t \in Tab |-> /\ sure[t]
                         /\ t = c.tab \/ login_required(jar') = login_required(jar)
                         /\ ~(c.kind = "logout" /\ \E d \in calls : d.tab = c.tab /\ t = c.tab /\ d.kind = "me")]

-----------------------------------------------------------------------------
(* The tabs. *)

Quiet(t) == \A c \in calls : c.tab # t

\* Opening or reloading a page: RefreshUserCookies in App.tsx, load in +page.ts.
load_page(t) ==
  /\ Quiet(t)
  /\ tab[t].pc \in {"closed", "ready", "error"}
  /\ tab' = [tab EXCEPT ![t] = [pc |-> "refresh", shown |-> IF t \in Manager THEN kept ELSE Nobody]]
  /\ calls' = calls \union {AskRefresh(t, jar)}
  /\ sure' = [sure EXCEPT ![t] = TRUE]
  /\ UNCHANGED <<jar, users, kept, signed, crossed>>

\* setAuthDetails: a tab of the management frontend also keeps it for the next page.
Shows(t, u, pc) ==
  /\ tab' = [tab EXCEPT ![t] = [pc |-> pc, shown |-> u]]
  /\ kept' = IF t \in Manager THEN u ELSE kept

\* Mutant of wants_me: an answer without a user is taken for a temporary login.
wants_me_lenient(c) == c.sets = "main"

\* After a refresh: whether the script goes on to /auth/me.
wants_me(c) ==
  IF c.tab \in Manager THEN c.sets = "main" ELSE c.who # SvcUser

receive_refresh(c) ==
  /\ c.kind = "refresh" /\ Arrives(c) /\ Unsettles(c)
  /\ \/ /\ wants_me(c)
        /\ tab' = [tab EXCEPT ![c.tab].pc = "me"]
        /\ Sends(c, {AskMe(c.tab, jar')})
        /\ users' = users_after_me(jar')
        /\ kept' = kept
     \/ /\ ~wants_me(c)
        /\ Shows(c.tab, Nobody, "ready")
        /\ Sends(c, {})
        /\ users' = users

\* The mapper's signOut: nobody is shown, and temporary cookies are asked for.
signs_out(c, pc) ==
  /\ Shows(c.tab, Nobody, pc)
  /\ Sends(c, IF c.tab \in Mapper THEN {AskTemp(c.tab, jar')} ELSE {})

\* Mutant of me_fails: getUserDetailsFromApi does not catch its error.
me_fails_thrown(c) == UNCHANGED <<tab, kept, sure>> /\ Sends(c, {})

\* /auth/me failed: the management tab goes on with what it shows.
me_fails(c) ==
  IF c.tab \in Manager
  THEN /\ tab' = [tab EXCEPT ![c.tab].pc = "ready"]
       /\ sure' = [sure EXCEPT ![c.tab] = FALSE]
       /\ kept' = kept /\ Sends(c, {})
  ELSE signs_out(c, "error") /\ sure' = sure

receive_me(c) ==
  /\ c.kind = "me" /\ Arrives(c)
  /\ \/ c.who # Nobody /\ Shows(c.tab, c.who, "ready") /\ Sends(c, {}) /\ sure' = sure
     \/ c.who = Nobody /\ me_fails(c)
  /\ users' = users

\* handleOnSignOut, handleSignOut: the button is there while a user is shown.
sign_out(t) ==
  /\ tab[t].shown # Nobody
  /\ tab[t].pc \in (IF t \in Manager THEN {"refresh", "me", "ready"} ELSE {"ready"})
  /\ \A c \in calls : c.tab = t => c.kind \in {"refresh", "me"}
  /\ calls' = calls \union {InFlight(t, "logout", [sets |-> "clear", who |-> Nobody])}
  /\ UNCHANGED <<jar, users, tab, kept, sure, signed, crossed>>

receive_logout(c) ==
  /\ c.kind = "logout" /\ Arrives(c) /\ Unsettles(c)
  /\ signs_out(c, tab[c.tab].pc)
  /\ users' = users

\* The refresh of the mapper's signOut.
receive_temp(c) ==
  /\ c.kind = "temp" /\ Arrives(c) /\ Unsettles(c)
  /\ Sends(c, {})
  /\ UNCHANGED <<users, tab, kept>>

\* Back from OpenStreetMap as u: OsmAuth.tsx, under the management frontend's pages.
osm_login(t, u) ==
  /\ Quiet(t)
  /\ tab[t].pc \in {"ready", "error"} /\ tab[t].shown = Nobody
  /\ tab' = [tab EXCEPT ![t] = [pc |-> "callback", shown |-> kept]]
  /\ calls' = calls \union {InFlight(t, "callback", [sets |-> "login", who |-> u])}
  /\ sure' = [sure EXCEPT ![t] = TRUE]
  /\ UNCHANGED <<jar, users, kept, signed, crossed>>

\* The page that asked for the login is the one returned to; for the mapper's, a page load.
receive_callback(c) ==
  /\ c.kind = "callback" /\ Arrives(c) /\ Unsettles(c)
  /\ IF c.tab \in Manager
     THEN /\ tab' = [tab EXCEPT ![c.tab].pc = "me"]
          /\ Sends(c, {AskMe(c.tab, jar')})
          /\ users' = users_after_me(jar')
     ELSE /\ tab' = [tab EXCEPT ![c.tab] = [pc |-> "refresh", shown |-> Nobody]]
          /\ Sends(c, {AskRefresh(c.tab, jar')})
          /\ users' = users
  /\ kept' = kept

(***************************************************************************)
(* The answer does not arrive, and neither do its cookies: a refresh counts*)
(* as refused, a sign-out only shows an alert, a callback ends on an error *)
(* page.                                                                   *)
(***************************************************************************)
lose(c) ==
  /\ UNCHANGED <<jar, signed, crossed>>
  /\ CASE c.kind = "refresh" /\ c.tab \in Manager ->
            /\ Shows(c.tab, Nobody, "ready")
            /\ calls' = calls \ {c} /\ users' = users
            /\ sure' = [sure EXCEPT ![c.tab] = FALSE]
       [] c.kind = "refresh" /\ c.tab \in Mapper ->
            /\ tab' = [tab EXCEPT ![c.tab].pc = "me"]
            /\ calls' = (calls \ {c}) \union {AskMe(c.tab, jar)}
            /\ users' = users_after_me(jar)
            /\ UNCHANGED <<kept, sure>>
       [] c.kind = "me" -> me_fails(c) /\ users' = users
       [] c.kind = "callback" ->
            /\ tab' = [tab EXCEPT ![c.tab].pc = "error"]
            /\ calls' = calls \ {c} /\ UNCHANGED <<users, kept, sure>>
       [] c.kind \in {"logout", "temp"} ->
            /\ calls' = calls \ {c} /\ UNCHANGED <<users, tab, kept, sure>>

-----------------------------------------------------------------------------
\* The cookie a tick later.
aged(cookie) ==
  IF cookie = None \/ cookie.until = 1 THEN None
  ELSE [cookie EXCEPT !.exp = IF @ = 0 THEN 0 ELSE @ - 1, !.until = @ - 1]

\* Time passes, for the tokens in answers still in flight too; none is for a day.
tick ==
  /\ \A c \in calls : c.exp > 1
  /\ jar' = [jar EXCEPT !.main = aged(@), !.temp = aged(@), !.refresh = aged(@)]
  /\ calls' = {[c EXCEPT !.exp = @ - 1] : c \in calls}
  /\ sure' = [t \in Tab |-> sure[t] /\ login_required(jar') = login_required(jar)
                                    /\ mapper_login_required(jar') = mapper_login_required(jar)]
  /\ UNCHANGED <<users, tab, kept, signed, crossed>>

\* The cookie with the OSM token lives for ten days, whatever becomes of the others.
osm_token_expires ==
  /\ jar.osm # Nobody
  /\ jar' = [jar EXCEPT !.osm = Nobody]
  /\ UNCHANGED <<users, tab, kept, calls, sure, signed, crossed>>

\* DbUser.delete, by an administrator: the tokens stay valid.
delete_user(u) ==
  /\ u \in users
  /\ users' = users \ {u}
  /\ sure' = [t \in Tab |-> sure[t] /\ login_required(jar) # u]
  /\ UNCHANGED <<jar, tab, kept, calls, signed, crossed>>

-----------------------------------------------------------------------------
receive(c) ==
  \/ receive_refresh(c) \/ receive_me(c) \/ receive_logout(c)
  \/ receive_temp(c) \/ receive_callback(c)

Next ==
  \/ \E t \in Tab : load_page(t) \/ sign_out(t) \/ \E u \in User : osm_login(t, u)
  \/ \E c \in calls : receive(c) \/ lose(c)
  \/ tick \/ osm_token_expires
  \/ \E u \in User : delete_user(u)

Spec == Init /\ [][Next]_vars

\* Every fetch of a page that is being loaded is answered or fails (there is one at a time);
\* people and time owe nothing.
Answers(t) ==
  \E c \in calls : /\ c.tab = t /\ c.kind \in {"refresh", "me", "callback"}
                   /\ receive(c) \/ lose(c)

FairSpec == Spec /\ \A t \in Tab : WF_vars(Answers(t))

-----------------------------------------------------------------------------
(* Properties. *)

\* Temporary cookies are for contributions without a login: they never carry a person,
\* although refresh_mapper_token makes them from current_user, whoever that is.  It rests
\* on the refresh token outliving the access token through every refresh.
TempAnonymous ==
  /\ jar.temp # None => jar.temp.who = SvcUser
  /\ \A c \in calls : c.sets = "temp" => c.who = SvcUser

\* The cookies are those of the last login and go with the last logout ("Reset httpOnly
\* cookie to sign out user"), the OSM token with the session, unless the answer to a
\* refresh sent before it arrives after it.
SessionIsLogin ==
  ~crossed => /\ jar.main # None => jar.main.who = signed
              /\ jar.osm \in {Nobody, signed}

\* Both: no cookie is anybody's but the one's it was made for.
CookiesOfLogin == TempAnonymous /\ SessionIsLogin

\* Whom a request of tab t is attributed to.
acts_as(t) == IF t \in Manager THEN login_required(jar) ELSE mapper_login_required(jar)

\* A page that is loaded shows whom its requests are attributed to, svcfmtm as nobody,
\* unless since then the tokens expired, another tab signed in or out, the user was
\* deleted, or a sign-out, a refresh or /auth/me of its own went wrong.
ShownActs ==
  \A t \in Tab :
    tab[t].pc = "ready" /\ Quiet(t) /\ sure[t] =>
      /\ acts_as(t) = IF t \in Mapper /\ tab[t].shown = Nobody THEN SvcUser ELSE tab[t].shown
      /\ tab[t].shown \in users \union {Nobody}

\* No page is loading for ever: it is ready in the end, or shows an error.
LoadEnds == \A t \in Tab : []<>(tab[t].pc \in {"closed", "ready", "error"})
=============================================================================

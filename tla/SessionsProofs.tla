--------------------------- MODULE SessionsProofs ---------------------------
(***************************************************************************)
(* Proofs about Sessions, for any set of tabs and users: CookiesOfLogin,   *)
(* ShownActs and the types.                                                *)
(*                                                                         *)
(* CookiesOfLogin rests on what relates the cookies to each other: the     *)
(* access token never outlives the refresh token, so that a mapper who is  *)
(* signed in is never given temporary cookies; and on what relates the     *)
(* answers in flight to the last login: a refresh sent since carries its   *)
(* user.  ShownActs rests on the same cookies and on what each tab waits   *)
(* for: one answer (a manager's sign-out aside), which fits where its      *)
(* script is, and which tells the truth about the session as long as       *)
(* nothing has unsettled the tab.                                          *)
(***************************************************************************)
EXTENDS Sessions, TLAPS

-----------------------------------------------------------------------------
(* The cookies. *)

Person == User \union {Nobody}

\* The refresh cookie covers the main one, which is a person's; the temporary one is nobody's.
Covered(j) ==
  /\ j.main # None => /\ j.main.who \in User
                      /\ j.refresh # None
                      /\ j.main.exp <= j.refresh.exp /\ j.main.until <= j.refresh.until
  /\ j.temp # None => j.temp.who = SvcUser

JarOK(j) == j \in Jar /\ Covered(j)

CallOK(c) ==
  /\ c \in Call
  /\ c.sets \in {"main", "login"} => c.who \in User
  /\ c.sets = "temp" => c.who = SvcUser
  /\ c.kind = "me" => c.who \in Person

LEMMA JarFields ==
  ASSUME NEW j \in Jar
  PROVE  /\ j.main \in Cookie /\ j.temp \in Cookie
         /\ j.refresh \in [exp : 0..Week, until : 1..Week] \union {None}
         /\ j.osm \in Person
BY DEF Jar, Person

LEMMA StoredMain ==
  ASSUME NEW j, JarOK(j), NEW c, CallOK(c), c.sets \in {"main", "login"}
  PROVE  /\ JarOK(stored(j, c)) /\ stored(j, c).main.who = c.who
         /\ stored(j, c).osm = IF c.sets = "login" THEN c.who ELSE j.osm
<1> USE SessionsAssumption
<1>0. j \in Jar /\ c.who \in User /\ c.exp \in 0..Day
  BY DEF JarOK, CallOK, Call
<1> DEFINE main == [who |-> c.who, exp |-> c.exp, until |-> Day]
<1>1. main \in Cookie /\ Day <= Week
  BY <1>0 DEF Cookie
<1>2. CASE c.sets = "login"
  <2> DEFINE refresh == [exp |-> c.exp + (Week - Day), until |-> Week]
  <2>1. /\ refresh \in [exp : 0..Week, until : 1..Week] /\ refresh # None
        /\ c.exp <= c.exp + (Week - Day)
    BY <1>0
  <2>2. stored(j, c) = [main |-> main, temp |-> j.temp, refresh |-> refresh, osm |-> c.who]
    BY <1>0, <1>2 DEF stored, handle_osm_callback, Jar
  <2> QED
    BY <1>0, <1>1, <1>2, <2>1, <2>2, JarFields DEF JarOK, Covered, Jar, Person
<1>3. CASE c.sets = "main"
  <2> DEFINE refresh == [exp |-> c.exp, until |-> Week]
  <2>1. refresh \in [exp : 0..Week, until : 1..Week] /\ refresh # None
    BY <1>0
  <2>2. stored(j, c) = [main |-> main, temp |-> None, refresh |-> refresh, osm |-> j.osm]
    BY <1>0, <1>3 DEF stored, refresh_cookies, Jar
  <2>3. None \in Cookie
    BY DEF Cookie
  <2> QED
    BY <1>0, <1>1, <1>3, <2>1, <2>2, <2>3, JarFields DEF JarOK, Covered, Jar, Person
<1> QED
  BY <1>2, <1>3

LEMMA StoredOther ==
  ASSUME NEW j, JarOK(j), NEW c, CallOK(c), c.sets \notin {"main", "login"}
  PROVE  /\ JarOK(stored(j, c))
         /\ c.sets = "clear" => stored(j, c) = Empty
         /\ c.sets # "clear" => stored(j, c).main = j.main /\ stored(j, c).osm = j.osm
<1> USE SessionsAssumption
<1>0. j \in Jar /\ c.exp \in 0..Day /\ c.sets \in {"temp", "clear", "nothing"}
  BY DEF JarOK, CallOK, Call
<1>1. CASE c.sets = "temp"
  <2> DEFINE temp == [who |-> c.who, exp |-> c.exp, until |-> Day]
  <2>1. temp \in Cookie /\ c.who = SvcUser
    BY <1>0, <1>1 DEF CallOK, Cookie
  <2>2. stored(j, c) = [main |-> j.main, temp |-> temp, refresh |-> j.refresh, osm |-> j.osm]
    BY <1>0, <1>1 DEF stored, Jar
  <2> QED
    BY <1>0, <1>1, <2>1, <2>2, JarFields DEF JarOK, Covered, Jar, Person
<1>2. CASE c.sets = "clear"
  <2>1. Empty \in Jar
    BY DEF Empty, Jar, Cookie
  <2>2. Covered(Empty)
    BY DEF Covered, Empty
  <2> QED
    BY <1>2, <2>1, <2>2 DEF stored, logout, JarOK
<1>3. CASE c.sets = "nothing"
  BY <1>3 DEF stored
<1> QED
  BY <1>0, <1>1, <1>2, <1>3

\* A tick keeps the order of the lifetimes.
LEMMA Aging ==
  ASSUME NEW j, JarOK(j), NEW k,
         k = [j EXCEPT !.main = aged(j.main), !.temp = aged(j.temp), !.refresh = aged(j.refresh)]
  PROVE  /\ JarOK(k)
         /\ k.main # None => j.main # None /\ k.main.who = j.main.who
         /\ k.osm = j.osm
<1> USE SessionsAssumption
<1>0. j \in Jar /\ Covered(j)
  BY DEF JarOK
<1>1. /\ k.main = aged(j.main) /\ k.temp = aged(j.temp) /\ k.refresh = aged(j.refresh)
      /\ k.osm = j.osm
      /\ /\ aged(j.main) \in Cookie /\ aged(j.temp) \in Cookie
         /\ aged(j.refresh) \in [exp : 0..Week, until : 1..Week] \union {None}
         => k \in Jar
  BY <1>0 DEF Jar
<1>2. ASSUME NEW c \in Cookie, aged(c) # None
      PROVE  /\ aged(c) \in Cookie /\ c # None /\ c.until > 1
             /\ aged(c) = [who |-> c.who, exp |-> IF c.exp = 0 THEN 0 ELSE c.exp - 1,
                           until |-> c.until - 1]
  <2>1. c # None /\ c.until # 1
    BY <1>2 DEF aged
  <2>2. c \in [who : User \union {SvcUser}, exp : 0..Day, until : 1..Day]
    BY <2>1 DEF Cookie
  <2>3. aged(c) = [who |-> c.who, exp |-> IF c.exp = 0 THEN 0 ELSE c.exp - 1,
                   until |-> c.until - 1]
    BY <2>1, <2>2 DEF aged
  <2>4. c.until - 1 \in 1..Day /\ c.until > 1 /\ (IF c.exp = 0 THEN 0 ELSE c.exp - 1) \in 0..Day
    BY <2>1, <2>2
  <2> QED
    BY <2>1, <2>2, <2>3, <2>4 DEF Cookie
<1>3. ASSUME NEW c \in [exp : 0..Week, until : 1..Week] \union {None}
      PROVE  /\ aged(c) \in [exp : 0..Week, until : 1..Week] \union {None}
             /\ c # None /\ c.until > 1 =>
                  aged(c) = [exp |-> IF c.exp = 0 THEN 0 ELSE c.exp - 1, until |-> c.until - 1]
                  /\ aged(c) # None
  <2>1. CASE c = None \/ c.until = 1
    BY <2>1 DEF aged
  <2>2. CASE c # None /\ c.until # 1
    <3>1. c \in [exp : 0..Week, until : 1..Week]
      BY <2>2
    <3>2. aged(c) = [exp |-> IF c.exp = 0 THEN 0 ELSE c.exp - 1, until |-> c.until - 1]
      BY <2>2, <3>1 DEF aged
    <3>3. c.until - 1 \in 1..Week /\ (IF c.exp = 0 THEN 0 ELSE c.exp - 1) \in 0..Week
      BY <2>2, <3>1
    <3> QED
      BY <3>2, <3>3
  <2> QED
    BY <2>1, <2>2
<1>4. None \in Cookie
  BY DEF Cookie
<1>5. k \in Jar
  BY <1>0, <1>1, <1>2, <1>3, <1>4, JarFields
<1>6. ASSUME aged(j.main) # None
      PROVE  /\ j.main # None /\ aged(j.main).who = j.main.who /\ aged(j.main).who \in User
             /\ aged(j.refresh) # None
             /\ aged(j.main).exp <= aged(j.refresh).exp
             /\ aged(j.main).until <= aged(j.refresh).until
  <2>1. /\ j.main \in Cookie /\ j.main # None /\ j.main.until > 1
        /\ aged(j.main) = [who |-> j.main.who, exp |-> IF j.main.exp = 0 THEN 0 ELSE j.main.exp - 1,
                           until |-> j.main.until - 1]
    BY <1>0, <1>2, <1>6, JarFields
  <2>2. /\ j.main.exp \in 0..Day /\ j.main.until \in 1..Day
        /\ j.main.who \in User /\ j.refresh # None
        /\ j.refresh.exp \in 0..Week /\ j.refresh.until \in 1..Week
        /\ j.main.exp <= j.refresh.exp /\ j.main.until <= j.refresh.until
    BY <1>0, <2>1, JarFields DEF Covered, Cookie
  <2>3. /\ aged(j.refresh) = [exp |-> IF j.refresh.exp = 0 THEN 0 ELSE j.refresh.exp - 1,
                              until |-> j.refresh.until - 1]
        /\ aged(j.refresh) # None
    BY <1>0, <1>3, <2>1, <2>2, JarFields
  <2> QED
    BY <2>1, <2>2, <2>3
<1>7. aged(j.temp) # None => aged(j.temp).who = SvcUser
  BY <1>0, <1>2, JarFields DEF Covered
<1>8. JarOK(k)
  BY <1>1, <1>5, <1>6, <1>7 DEF JarOK, Covered
<1> QED
  BY <1>1, <1>6, <1>8

-----------------------------------------------------------------------------
(* The calls a page makes. *)

Asks(t, j) == {AskRefresh(t, j), AskMe(t, j), AskTemp(t, j)}

\* A mapper is given temporary cookies only without a login, and a refresh carries the user
\* of the cookies it was sent with.
LEMMA RefreshMapper ==
  ASSUME NEW j, JarOK(j)
  PROVE  /\ refresh_mapper(j).sets \in {"main", "temp", "nothing"}
         /\ refresh_mapper(j).sets = "main" =>
              j.main # None /\ refresh_mapper(j).who = j.main.who /\ j.main.who \in User
         /\ refresh_mapper(j).sets = "temp" => refresh_mapper(j).who = SvcUser
         /\ refresh_mapper(j).sets = "nothing" => refresh_mapper(j).who = Nobody
<1> USE SessionsAssumption
<1>0. j \in Jar /\ Covered(j)
  BY DEF JarOK
<1>1. CASE mapper_login_required(j) = Nobody
  BY <1>1 DEF refresh_mapper, Refused
<1>2. CASE can_refresh(j) /\ mapper_login_required(j) # Nobody
  BY <1>0, <1>2 DEF refresh_mapper, can_refresh, Covered
<1>3. CASE ~can_refresh(j) /\ mapper_login_required(j) # Nobody
  <2>1. refresh_mapper(j) = [sets |-> "temp", who |-> mapper_login_required(j)]
    BY <1>3 DEF refresh_mapper
  <2>2. j.main = None
    <3> SUFFICES ASSUME j.main # None PROVE FALSE
      OBVIOUS
    <3>1. j.main.exp > 0
      BY <1>3 DEF mapper_login_required, holder
    <3>2. j.main.exp \in 0..Day /\ j.refresh # None /\ j.refresh.exp \in 0..Week
          /\ j.main.exp <= j.refresh.exp
      BY <1>0, JarFields DEF Covered, Cookie
    <3> QED
      BY <1>3, <3>1, <3>2 DEF can_refresh
  <2>3. mapper_login_required(j) = SvcUser
    BY <1>0, <1>3, <2>2 DEF mapper_login_required, holder, Covered
  <2> QED
    BY <2>1, <2>3
<1> QED
  BY <1>1, <1>2, <1>3

LEMMA LoginIsPerson ==
  ASSUME NEW j, JarOK(j)
  PROVE  login_required(j) \in Person
BY DEF JarOK, Covered, login_required, holder, Person

Carries(c, t, j) ==
  /\ CallOK(c) /\ c.tab = t /\ c.late = FALSE
  /\ c.sets = "main" => j.main # None /\ c.who = j.main.who

LEMMA AskedOK ==
  ASSUME NEW j, JarOK(j), NEW t \in Tab, NEW c \in Asks(t, j)
  PROVE  Carries(c, t, j)
<1> USE SessionsAssumption
<1>0. j \in Jar /\ Covered(j)
  BY DEF JarOK
<1>1. ASSUME NEW kind \in {"refresh", "temp"}, NEW answer,
             answer.sets \in {"main", "temp", "nothing"},
             answer.sets = "main" => j.main # None /\ answer.who = j.main.who /\ answer.who \in User,
             answer.sets = "temp" => answer.who = SvcUser,
             answer.sets = "nothing" => answer.who = Nobody,
             c = InFlight(t, kind, answer)
      PROVE  Carries(c, t, j)
  BY <1>1 DEF Carries, InFlight, CallOK, Call
<1>2. CASE c = AskTemp(t, j) \/ (c = AskRefresh(t, j) /\ t \notin Manager)
  <2>1. \E kind \in {"refresh", "temp"} : c = InFlight(t, kind, refresh_mapper(j))
    BY <1>2 DEF AskTemp, AskRefresh
  <2> QED
    BY <1>1, <2>1, RefreshMapper
<1>3. CASE c = AskRefresh(t, j) /\ t \in Manager
  <2>1. /\ refresh_management(j).sets \in {"main", "nothing"}
        /\ refresh_management(j).sets = "main" =>
             j.main # None /\ refresh_management(j).who = j.main.who /\ j.main.who \in User
        /\ refresh_management(j).sets = "nothing" => refresh_management(j).who = Nobody
    BY <1>0 DEF refresh_management, Refused, can_refresh, Covered
  <2>2. c = InFlight(t, "refresh", refresh_management(j))
    BY <1>3 DEF AskRefresh
  <2> QED
    BY <1>1, <2>1, <2>2
<1>4. CASE c = AskMe(t, j)
  <2>1. me(j).sets = "nothing" /\ me(j).who \in Person
    BY LoginIsPerson DEF me, Refused, Person
  <2> QED
    BY <1>4, <2>1 DEF Carries, AskMe, InFlight, CallOK, Call, Person
<1>5. c = AskTemp(t, j) \/ c = AskRefresh(t, j) \/ c = AskMe(t, j)
  BY DEF Asks
<1> QED
  BY <1>2, <1>3, <1>4, <1>5

LEMMA UsersAfterMe ==
  ASSUME NEW j, JarOK(j), users \subseteq User
  PROVE  users_after_me(j) \subseteq User
BY LoginIsPerson DEF users_after_me, registers, Person

-----------------------------------------------------------------------------
(* The session. *)

Core ==
  /\ JarOK(jar)
  /\ users \subseteq User
  /\ \A c \in calls : CallOK(c)
  /\ signed \in Person
  /\ crossed \in BOOLEAN

\* Unless a refresh has crossed a login or logout, the refreshes sent since carry its user.
Session ==
  ~crossed => /\ jar.main # None => jar.main.who = signed
              /\ jar.osm \in {Nobody, signed}
              /\ \A c \in calls : c.sets = "main" /\ ~c.late => c.who = signed

\* What an answer sends out is made from the cookies it leaves.
Receives(c) ==
  /\ Arrives(c)
  /\ \E sent \in SUBSET Asks(c.tab, jar') : Sends(c, sent)
  /\ users' \in {users, users_after_me(jar')}

LEMMA MarkLate ==
  ASSUME NEW d, CallOK(d), NEW b \in BOOLEAN
  PROVE  /\ CallOK([d EXCEPT !.late = @ \/ b])
         /\ [d EXCEPT !.late = @ \/ b].sets = d.sets
         /\ [d EXCEPT !.late = @ \/ b].who = d.who
         /\ [d EXCEPT !.late = @ \/ b].tab = d.tab
         /\ ~[d EXCEPT !.late = @ \/ b].late <=> ~d.late /\ ~b
<1>1. d \in Call
  BY DEF CallOK
<1> QED
  BY <1>1 DEF CallOK, Call

LEMMA ArrivalKeepsJar ==
  ASSUME Core, NEW c \in calls, Arrives(c)
  PROVE  JarOK(jar') /\ signed' \in Person /\ crossed' \in BOOLEAN
<1>1. CallOK(c) /\ JarOK(jar)
  BY DEF Core
<1>2. JarOK(jar')
  BY <1>1, StoredMain, StoredOther DEF Arrives
<1>3. signed' \in Person
  BY <1>1 DEF Core, Arrives, CallOK, Person
<1> QED
  BY <1>2, <1>3 DEF Core, Arrives

LEMMA ReceiptKeepsSession ==
  ASSUME Core, Session, NEW c \in calls, Receives(c)
  PROVE  Core' /\ Session'
<1>0. CallOK(c) /\ JarOK(jar) /\ c.tab \in Tab /\ \A d \in calls : CallOK(d)
  BY DEF Core, CallOK, Call
<1>1. Arrives(c)
  BY DEF Receives
<1>2. JarOK(jar') /\ signed' \in Person /\ crossed' \in BOOLEAN
  BY <1>1, ArrivalKeepsJar
<1>3. users' \subseteq User
  BY <1>2, UsersAfterMe DEF Receives, Core
<1> DEFINE ends == c.sets \in {"login", "clear"}
<1>4. PICK sent \in SUBSET Asks(c.tab, jar') :
         calls' = {[d EXCEPT !.late = @ \/ ends] : d \in calls \ {c}} \union sent
  BY DEF Receives, Sends
<1>5. ends \in BOOLEAN
  OBVIOUS
<1> HIDE DEF ends
<1>6. ASSUME NEW e \in calls'
      PROVE  /\ CallOK(e)
             /\ e.sets = "main" /\ ~e.late =>
                  \/ ~ends /\ \E d \in calls : d.sets = "main" /\ ~d.late /\ e.who = d.who
                  \/ jar'.main # None /\ e.who = jar'.main.who
  <2>1. CASE e \in sent
    <3>1. Carries(e, c.tab, jar')
      BY <1>0, <1>2, <2>1, AskedOK
    <3> QED
      BY <3>1 DEF Carries
  <2>2. CASE e \notin sent
    <3>1. PICK d \in calls : e = [d EXCEPT !.late = @ \/ ends]
      BY <1>4, <2>2
    <3>2. CallOK(d)
      BY <1>0
    <3>3. /\ CallOK(e) /\ e.sets = d.sets /\ e.who = d.who
          /\ ~e.late <=> ~d.late /\ ~ends
      BY <1>5, <3>1, <3>2, MarkLate
    <3> QED
      BY <3>3
  <2> QED
    BY <2>1, <2>2
<1>7. Core'
  BY <1>2, <1>3, <1>6 DEF Core
<1>8. ASSUME ~crossed'
      PROVE  /\ jar'.main # None => jar'.main.who = signed'
             /\ jar'.osm \in {Nobody, signed'}
             /\ ~ends => signed' = signed /\ ~crossed
  <2>1. CASE c.sets = "login"
    <3>1. jar'.main.who = c.who /\ jar'.osm = c.who /\ signed' = c.who
      BY <1>0, <1>1, <2>1, StoredMain DEF Arrives
    <3> QED
      BY <2>1, <3>1 DEF ends
  <2>2. CASE c.sets = "clear"
    <3>1. jar' = Empty /\ signed' = Nobody
      BY <1>0, <1>1, <2>2, StoredOther DEF Arrives
    <3> QED
      BY <2>2, <3>1 DEF ends, Empty
  <2>3. CASE c.sets = "main"
    <3>1. /\ signed' = signed /\ ~crossed /\ ~c.late
      BY <1>1, <1>8, <2>3 DEF Arrives
    <3>2. jar'.main.who = c.who /\ jar'.osm = jar.osm
      BY <1>0, <1>1, <2>3, StoredMain DEF Arrives
    <3> QED
      BY <2>3, <3>1, <3>2 DEF Session
  <2>4. CASE c.sets \notin {"login", "clear", "main"}
    <3>1. signed' = signed /\ ~crossed
      BY <1>1, <1>8, <2>4 DEF Arrives
    <3>2. jar'.main = jar.main /\ jar'.osm = jar.osm
      BY <1>0, <1>1, <2>4, StoredOther DEF Arrives
    <3> QED
      BY <3>1, <3>2 DEF Session
  <2> QED
    BY <2>1, <2>2, <2>3, <2>4
<1>9. Session'
  BY <1>6, <1>8 DEF Session
<1> QED
  BY <1>7, <1>9

LEMMA Receipt ==
  ASSUME NEW c \in calls, receive(c)
  PROVE  Receives(c)
<1>1. CASE receive_refresh(c)
  <2>1. /\ Arrives(c)
        /\ \/ Sends(c, {AskMe(c.tab, jar')}) /\ users' = users_after_me(jar')
           \/ Sends(c, {}) /\ users' = users
    BY <1>1 DEF receive_refresh
  <2> QED
    BY <2>1 DEF Receives, Asks
<1>2. CASE receive_me(c)
  <2>1. Arrives(c) /\ users' = users /\ (Sends(c, {}) \/ Sends(c, {AskTemp(c.tab, jar')}))
    BY <1>2 DEF receive_me, me_fails, signs_out
  <2> QED
    BY <2>1 DEF Receives, Asks
<1>3. CASE receive_logout(c)
  <2>1. Arrives(c) /\ users' = users /\ (Sends(c, {}) \/ Sends(c, {AskTemp(c.tab, jar')}))
    BY <1>3 DEF receive_logout, signs_out
  <2> QED
    BY <2>1 DEF Receives, Asks
<1>4. CASE receive_temp(c)
  BY <1>4 DEF receive_temp, Receives, Asks
<1>5. CASE receive_callback(c)
  <2>1. /\ Arrives(c)
        /\ \/ Sends(c, {AskMe(c.tab, jar')}) /\ users' = users_after_me(jar')
           \/ Sends(c, {AskRefresh(c.tab, jar')}) /\ users' = users
    BY <1>5 DEF receive_callback
  <2> QED
    BY <2>1 DEF Receives, Asks
<1> QED
  BY <1>1, <1>2, <1>3, <1>4, <1>5 DEF receive

\* An answer that is lost leaves the cookies; what is sent after it is made from them.
LEMMA LossKeepsSession ==
  ASSUME Core, Session, NEW c \in calls, lose(c)
  PROVE  Core' /\ Session'
<1>0. JarOK(jar) /\ c.tab \in Tab /\ \A d \in calls : CallOK(d)
  BY DEF Core, CallOK, Call
<1>1. UNCHANGED <<jar, signed, crossed>>
  BY DEF lose
<1>2. /\ c.kind \in {"refresh", "me", "logout", "temp", "callback"}
      /\ c.tab \in Manager \/ c.tab \in Mapper
  BY <1>0 DEF CallOK, Call, Tab
<1> DEFINE ends == c.sets \in {"login", "clear"}
           Sent == /\ users' \in {users, users_after_me(jar)}
                   /\ \A e \in calls' :
                        \/ e \in calls
                        \/ \E d \in calls : e = [d EXCEPT !.late = @ \/ ends]
                        \/ e \in Asks(c.tab, jar)
<1>3. Sent
  <2>1. ASSUME NEW sent \in SUBSET Asks(c.tab, jar), Sends(c, sent), users' = users
        PROVE  Sent
    BY <2>1 DEF Sends
  <2>2. ASSUME NEW sent \in SUBSET Asks(c.tab, jar), calls' = (calls \ {c}) \union sent,
               users' \in {users, users_after_me(jar)}
        PROVE  Sent
    BY <2>2
  <2>3. CASE c.kind = "refresh" /\ c.tab \in Manager
    <3>1. calls' = calls \ {c} /\ users' = users
      BY <2>3, SessionsAssumption DEF lose
    <3> QED
      BY <2>2, <3>1
  <2>4. CASE c.kind = "refresh" /\ c.tab \in Mapper
    <3>1. calls' = (calls \ {c}) \union {AskMe(c.tab, jar)} /\ users' = users_after_me(jar)
      BY <2>4, SessionsAssumption DEF lose
    <3> QED
      BY <2>2, <3>1 DEF Asks
  <2>5. CASE c.kind = "me"
    <3>1. me_fails(c) /\ users' = users
      BY <2>5 DEF lose
    <3>2. Sends(c, {}) \/ Sends(c, {AskTemp(c.tab, jar)})
      BY <1>1, <3>1 DEF me_fails, signs_out
    <3> QED
      BY <2>1, <3>1, <3>2 DEF Asks
  <2>6. CASE c.kind \in {"logout", "temp", "callback"}
    <3>1. calls' = calls \ {c} /\ users' = users
      BY <2>6 DEF lose
    <3> QED
      BY <2>2, <3>1
  <2> QED
    BY <1>2, <2>3, <2>4, <2>5, <2>6
<1>4. ends \in BOOLEAN
  OBVIOUS
<1> HIDE DEF ends
<1> DEFINE OfKnown(e) ==
             e.sets = "main" /\ ~e.late =>
               \/ \E d \in calls : d.sets = "main" /\ ~d.late /\ e.who = d.who
               \/ jar.main # None /\ e.who = jar.main.who
<1>5. ASSUME NEW e \in calls'
      PROVE  /\ CallOK(e)
             /\ OfKnown(e)
  <2>1. CASE e \in calls
    BY <1>0, <2>1
  <2>2. ASSUME NEW d \in calls, e = [d EXCEPT !.late = @ \/ ends] PROVE CallOK(e) /\ OfKnown(e)
    <3>1. CallOK(d)
      BY <1>0
    <3>2. /\ CallOK(e) /\ e.sets = d.sets /\ e.who = d.who
          /\ ~e.late <=> ~d.late /\ ~ends
      BY <1>4, <2>2, <3>1, MarkLate
    <3> QED
      BY <3>2
  <2>3. CASE e \in Asks(c.tab, jar)
    <3>1. Carries(e, c.tab, jar)
      BY <1>0, <2>3, AskedOK
    <3> QED
      BY <3>1 DEF Carries
  <2> QED
    BY <1>3, <2>1, <2>2, <2>3
<1>6. Core'
  BY <1>0, <1>1, <1>3, <1>5, UsersAfterMe DEF Core
<1>7. Session'
  BY <1>1, <1>5 DEF Session
<1> QED
  BY <1>6, <1>7

LEMMA TickKeepsSession ==
  ASSUME Core, Session, tick
  PROVE  Core' /\ Session'
<1>0. JarOK(jar) /\ \A d \in calls : CallOK(d)
  BY DEF Core
<1>1. /\ jar' = [jar EXCEPT !.main = aged(jar.main), !.temp = aged(jar.temp),
                            !.refresh = aged(jar.refresh)]
      /\ calls' = {[c EXCEPT !.exp = @ - 1] : c \in calls}
      /\ \A c \in calls : c.exp > 1
      /\ UNCHANGED <<users, signed, crossed>>
  BY DEF tick
<1>2. /\ JarOK(jar')
      /\ jar'.main # None => jar.main # None /\ jar'.main.who = jar.main.who
      /\ jar'.osm = jar.osm
  BY <1>0, <1>1, Aging
<1>3. ASSUME NEW e \in calls'
      PROVE  /\ CallOK(e)
             /\ \E d \in calls : e.sets = d.sets /\ (e.late <=> d.late) /\ e.who = d.who
  <2>1. PICK d \in calls : e = [d EXCEPT !.exp = @ - 1]
    BY <1>1
  <2>2. d \in Call /\ d.exp > 1 /\ CallOK(d)
    BY <1>0, <1>1 DEF CallOK
  <2>3. d.exp - 1 \in 0..Day
    BY <2>2, SessionsAssumption DEF Call
  <2>4. /\ e \in Call /\ e.sets = d.sets /\ e.late = d.late /\ e.who = d.who
        /\ e.kind = d.kind
    BY <2>1, <2>2, <2>3 DEF Call
  <2> QED
    BY <2>2, <2>4 DEF CallOK
<1>4. Core'
  BY <1>1, <1>2, <1>3 DEF Core
<1>5. Session'
  BY <1>1, <1>2, <1>3 DEF Session
<1> QED
  BY <1>4, <1>5

LEMMA SessionStep ==
  ASSUME Core, Session, [Next]_vars
  PROVE  Core' /\ Session'
<1> USE SessionsAssumption
<1>0. JarOK(jar) /\ \A d \in calls : CallOK(d)
  BY DEF Core
\* A step that only sends c.
<1>a. ASSUME NEW c, CallOK(c), ~c.late,
             c.sets = "main" => jar.main # None /\ c.who = jar.main.who,
             calls' = calls \union {c}, UNCHANGED <<jar, users, signed, crossed>>
      PROVE  Core' /\ Session'
  BY <1>a DEF Core, Session
<1>1. ASSUME NEW t \in Tab, load_page(t) PROVE Core' /\ Session'
  <2>1. Carries(AskRefresh(t, jar), t, jar)
    BY <1>0, AskedOK DEF Asks
  <2>2. calls' = calls \union {AskRefresh(t, jar)} /\ UNCHANGED <<jar, users, signed, crossed>>
    BY <1>1 DEF load_page
  <2> HIDE DEF AskRefresh
  <2> QED
    BY <1>a, <2>1, <2>2 DEF Carries
<1>2. ASSUME NEW t \in Tab, sign_out(t) PROVE Core' /\ Session'
  <2> DEFINE c == InFlight(t, "logout", [sets |-> "clear", who |-> Nobody])
  <2>1. CallOK(c) /\ ~c.late /\ c.sets = "clear"
    BY DEF InFlight, CallOK, Call
  <2>2. calls' = calls \union {c} /\ UNCHANGED <<jar, users, signed, crossed>>
    BY <1>2 DEF sign_out
  <2> HIDE DEF c
  <2> QED
    BY <1>a, <2>1, <2>2
<1>3. ASSUME NEW t \in Tab, NEW u \in User, osm_login(t, u) PROVE Core' /\ Session'
  <2> DEFINE c == InFlight(t, "callback", [sets |-> "login", who |-> u])
  <2>1. CallOK(c) /\ ~c.late /\ c.sets = "login"
    BY DEF InFlight, CallOK, Call
  <2>2. calls' = calls \union {c} /\ UNCHANGED <<jar, users, signed, crossed>>
    BY <1>3 DEF osm_login
  <2> HIDE DEF c
  <2> QED
    BY <1>a, <2>1, <2>2
<1>4. ASSUME NEW c \in calls, receive(c) PROVE Core' /\ Session'
  BY <1>4, Receipt, ReceiptKeepsSession
<1>5. ASSUME NEW c \in calls, lose(c) PROVE Core' /\ Session'
  BY <1>5, LossKeepsSession
<1>6. CASE tick
  BY <1>6, TickKeepsSession
<1>7. CASE osm_token_expires
  <2>1. /\ jar' \in Jar /\ jar'.main = jar.main /\ jar'.temp = jar.temp
        /\ jar'.refresh = jar.refresh /\ jar'.osm = Nobody
    BY <1>0, <1>7 DEF osm_token_expires, JarOK, Jar
  <2>2. UNCHANGED <<users, calls, signed, crossed>>
    BY <1>7 DEF osm_token_expires
  <2>3. JarOK(jar')
    BY <1>0, <2>1 DEF JarOK, Covered
  <2> QED
    BY <2>1, <2>2, <2>3 DEF Core, Session
<1>8. ASSUME NEW u \in User, delete_user(u) PROVE Core' /\ Session'
  BY <1>8 DEF delete_user, Core, Session
<1>9. CASE UNCHANGED vars
  BY <1>9 DEF vars, Core, Session
<1> QED
  BY <1>1, <1>2, <1>3, <1>4, <1>5, <1>6, <1>7, <1>8, <1>9 DEF Next

\* The cookies are those of the last login, and temporary cookies are nobody's, for any number
\* of tabs, users and answers in flight.
THEOREM CookiesOfLoginHolds == Spec => []CookiesOfLogin
<1>1. Init => Core /\ Session
  <2> SUFFICES ASSUME Init PROVE Core /\ Session
    OBVIOUS
  <2>1. Empty \in Jar /\ Covered(Empty)
    BY DEF Empty, Jar, Cookie, Covered
  <2>2. jar.main = None /\ jar.osm = Nobody /\ JarOK(jar)
    BY <2>1 DEF Init, Empty, JarOK
  <2>3. users = {} /\ calls = {} /\ signed = Nobody /\ crossed = FALSE
    BY DEF Init
  <2>4. Core
    BY <2>2, <2>3 DEF Core, Person
  <2>5. Session
    BY <2>2, <2>3 DEF Session
  <2> QED
    BY <2>4, <2>5
<1>2. Core /\ Session /\ [Next]_vars => Core' /\ Session'
  BY SessionStep
<1>3. Core /\ Session => CookiesOfLogin
  BY DEF Core, Session, JarOK, Covered, CallOK, CookiesOfLogin, TempAnonymous, SessionIsLogin
<1> QED
  BY <1>1, <1>2, <1>3, PTL DEF Spec

-----------------------------------------------------------------------------
(* ShownActs: which answers a tab waits for (Fits, OneCall), and what holds of a tab that   *)
(* nothing has unsettled, while it waits and when it is ready (Sound).                      *)

KindFits(c, pc) ==
  /\ c.kind = "callback" => c.sets = "login" /\ pc = "callback"
  /\ c.kind = "logout" =>
       c.sets = "clear" /\ pc \in IF c.tab \in Manager THEN {"refresh", "me", "ready"} ELSE {"ready"}
  /\ c.kind = "me" => c.sets = "nothing" /\ pc = "me"
  /\ c.kind = "refresh" =>
       /\ pc = "refresh"
       /\ c.tab \in Manager => c.sets \in {"main", "nothing"}
       /\ c.who = SvcUser => c.sets = "temp"
  /\ c.kind = "temp" =>
       c.tab \in Mapper /\ pc \in {"ready", "error"} /\ (pc = "ready" => c.sets = "temp")

Fits == \A c \in calls : KindFits(c, tab[c.tab].pc) /\ c.exp > 0

\* A tab waits for one answer; a sign-out of the management frontend need not wait for the page.
Together(c, d) ==
  c.tab \in Manager /\ \/ c.kind = "logout" /\ d.kind \in {"refresh", "me"}
                       \/ d.kind = "logout" /\ c.kind \in {"refresh", "me"}

OneCall == \A c, d \in calls : c.tab = d.tab => c = d \/ Together(c, d)

\* What the answer c will tell, as things are.
SoundCall(c) ==
  /\ c.kind = "refresh" => IF c.tab \in Manager
                           THEN c.sets # "main" => login_required(jar) = Nobody
                           ELSE c.who = SvcUser => jar.main = None
  /\ c.kind = "me" /\ c.who # Nobody => c.who = login_required(jar) /\ c.who \in users

SoundAt(t) ==
  /\ \A c \in calls : c.tab = t => SoundCall(c)
  /\ tab[t].pc = "ready" =>
       /\ login_required(jar) = tab[t].shown /\ tab[t].shown \in users \union {Nobody}
       /\ t \in Mapper /\ tab[t].shown = Nobody => mapper_login_required(jar) = SvcUser

Sound == \A t \in Tab : sure[t] => SoundAt(t)

-----------------------------------------------------------------------------
(* What the calls of a page are, with the cookies they are made from. *)

LEMMA NobodyIsNoUser == SvcUser # Nobody /\ \A u \in User : u # Nobody /\ u # SvcUser
BY SessionsAssumption

LEMMA LoggedInMain ==
  ASSUME NEW j, JarOK(j), login_required(j) # Nobody
  PROVE  /\ j.main # None /\ login_required(j) = j.main.who /\ j.main.who \in User
         /\ mapper_login_required(j) = login_required(j) /\ can_refresh(j)
<1>1. j.main # None /\ j.main.exp > 0 /\ login_required(j) = j.main.who
  BY DEF login_required, holder
<1>2. j.main.who \in User /\ mapper_login_required(j) = login_required(j)
  BY <1>1 DEF JarOK, Covered, mapper_login_required, login_required
<1>3. /\ j.refresh # None /\ j.main.exp \in 0..Day /\ j.refresh.exp \in 0..Week
      /\ j.main.exp <= j.refresh.exp
  BY <1>1, JarFields, SessionsAssumption DEF JarOK, Covered, Cookie
<1>4. j.refresh.exp > 0
  BY <1>1, <1>3, SessionsAssumption
<1> QED
  BY <1>1, <1>2, <1>3, <1>4 DEF can_refresh

LEMMA InFlightFields ==
  ASSUME NEW t, NEW kind, NEW answer
  PROVE  /\ InFlight(t, kind, answer).tab = t /\ InFlight(t, kind, answer).kind = kind
         /\ InFlight(t, kind, answer).sets = answer.sets /\ InFlight(t, kind, answer).who = answer.who
         /\ InFlight(t, kind, answer).exp > 0
BY SessionsAssumption DEF InFlight

LEMMA RefreshSound ==
  ASSUME NEW j, JarOK(j), NEW t \in Tab
  PROVE  LET c == AskRefresh(t, j) IN
         /\ c.tab = t /\ c.kind = "refresh" /\ c.exp > 0
         /\ t \in Manager => c.sets \in {"main", "nothing"} /\ c.who # SvcUser
         /\ t \in Manager /\ c.sets # "main" => login_required(j) = Nobody
         /\ c.who = SvcUser => c.sets = "temp" /\ j.main = None
<1> DEFINE c == AskRefresh(t, j)
<1>1. c.tab = t /\ c.kind = "refresh" /\ c.exp > 0
  BY InFlightFields DEF AskRefresh
<1>2. CASE t \in Manager
  <2>1. c.sets = refresh_management(j).sets /\ c.who = refresh_management(j).who
    BY <1>2, InFlightFields DEF AskRefresh
  <2>2. CASE login_required(j) # Nobody
    <3>1. refresh_management(j) = [sets |-> "main", who |-> j.main.who] /\ j.main.who \in User
      BY <2>2, LoggedInMain DEF refresh_management
    <3> QED
      BY <1>1, <1>2, <2>1, <3>1, NobodyIsNoUser
  <2>3. CASE login_required(j) = Nobody
    <3>1. refresh_management(j) = Refused
      BY <2>3 DEF refresh_management
    <3> QED
      BY <1>1, <1>2, <2>1, <2>3, <3>1, NobodyIsNoUser DEF Refused
  <2> QED
    BY <2>2, <2>3
<1>3. CASE t \notin Manager
  <2>1. c.sets = refresh_mapper(j).sets /\ c.who = refresh_mapper(j).who
    BY <1>3, InFlightFields DEF AskRefresh
  <2>2. c.who = SvcUser => c.sets = "temp"
    BY <2>1, RefreshMapper, NobodyIsNoUser
  <2>3. ASSUME c.sets = "temp" PROVE j.main = None
    <3>1. ~can_refresh(j) /\ mapper_login_required(j) # Nobody
      BY <2>1, <2>3 DEF refresh_mapper, Refused
    <3>2. login_required(j) = Nobody
      BY <3>1, LoggedInMain
    <3> QED
      BY <3>1, <3>2 DEF login_required, mapper_login_required
  <2> QED
    BY <1>1, <1>3, <2>2, <2>3
<1> QED
  BY <1>2, <1>3

LEMMA MeSound ==
  ASSUME NEW j, JarOK(j), NEW t
  PROVE  LET c == AskMe(t, j) IN
         /\ c.tab = t /\ c.kind = "me" /\ c.sets = "nothing" /\ c.exp > 0
         /\ c.who # Nobody => c.who = login_required(j) /\ c.who \in users_after_me(j)
BY InFlightFields DEF AskMe, me, Refused, users_after_me

LEMMA TempSound ==
  ASSUME NEW t, NEW j
  PROVE  LET c == AskTemp(t, j) IN
         /\ c.tab = t /\ c.kind = "temp" /\ c.exp > 0
         /\ j = Empty => c.sets = "temp"
<1>1. refresh_mapper(Empty).sets = "temp"
  BY NobodyIsNoUser DEF refresh_mapper, mapper_login_required, can_refresh, Empty
<1> QED
  BY <1>1, InFlightFields DEF AskTemp

-----------------------------------------------------------------------------
(* Tabs that a step does not concern. *)

\* A change of the cookies that changes nobody's session.
Calm ==
  /\ login_required(jar') = login_required(jar)
  /\ jar.main = None => jar'.main = None
  /\ mapper_login_required(jar) = SvcUser => mapper_login_required(jar') = SvcUser
  /\ login_required(jar) \in users => login_required(jar) \in users'

Same(d, e) == d.tab = e.tab /\ d.kind = e.kind /\ d.sets = e.sets /\ d.who = e.who

LEMMA StaysSound ==
  ASSUME Core, NEW t \in Tab, SoundAt(t), Calm, tab'[t] = tab[t],
         \A e \in calls' : e.tab = t => \E d \in calls : Same(d, e)
  PROVE  SoundAt(t)'
<1>1. login_required(jar) # Nobody => login_required(jar) \in User
  BY LoggedInMain DEF Core
<1>2. ASSUME NEW e \in calls', e.tab = t PROVE SoundCall(e)'
  <2>1. PICK d \in calls : Same(d, e)
    BY <1>2
  <2>2. SoundCall(d)
    BY <1>2, <2>1 DEF SoundAt, Same
  <2> QED
    BY <2>1, <2>2 DEF SoundCall, Same, Calm
<1>3. ASSUME tab'[t].pc = "ready"
      PROVE  /\ login_required(jar') = tab'[t].shown /\ tab'[t].shown \in users' \union {Nobody}
             /\ t \in Mapper /\ tab'[t].shown = Nobody => mapper_login_required(jar') = SvcUser
  BY <1>3 DEF SoundAt, Calm
<1> QED
  BY <1>2, <1>3 DEF SoundAt

\* An answer that leaves the login leaves everybody else's session.
LEMMA StoredCalm ==
  ASSUME NEW j, JarOK(j), NEW c, CallOK(c), c.exp > 0,
         login_required(stored(j, c)) = login_required(j)
  PROVE  /\ j.main = None => stored(j, c).main = None
         /\ mapper_login_required(j) = SvcUser => mapper_login_required(stored(j, c)) = SvcUser
<1> DEFINE k == stored(j, c)
<1>0. j \in Jar /\ c.exp \in 0..Day /\ c.sets \in {"main", "temp", "login", "clear", "nothing"}
  BY DEF JarOK, CallOK, Call
<1>1. CASE c.sets \in {"main", "login"}
  <2>1. c.who \in User /\ k.main = [who |-> c.who, exp |-> c.exp, until |-> Day]
    BY <1>0, <1>1 DEF CallOK, stored, refresh_cookies, handle_osm_callback, Jar
  <2>2. k.main # None
    <3>1. Day \in 1..Day
      BY SessionsAssumption
    <3>2. k.main \in [who : User \union {SvcUser}, exp : 0..Day, until : 1..Day]
      BY <1>0, <2>1, <3>1
    <3> QED
      BY <3>2, SessionsAssumption
  <2>3. login_required(k) = c.who
    BY <2>1, <2>2 DEF login_required, holder
  <2>4. j.main # None /\ mapper_login_required(j) = c.who
    BY <2>1, <2>3, LoggedInMain, NobodyIsNoUser
  <2> QED
    BY <2>1, <2>4, NobodyIsNoUser
<1>2. CASE c.sets = "temp"
  <2>1. k.main = j.main /\ k.temp = [who |-> SvcUser, exp |-> c.exp, until |-> Day]
    BY <1>0, <1>2 DEF CallOK, stored, Jar
  <2>2. k.temp # None => holder(k.temp) = SvcUser
    BY <2>1 DEF holder
  <2> QED
    BY <2>1, <2>2 DEF mapper_login_required
<1>3. CASE c.sets = "clear"
  BY <1>3 DEF stored, logout, Empty, mapper_login_required
<1>4. CASE c.sets = "nothing"
  BY <1>4 DEF stored
<1> QED
  BY <1>0, <1>1, <1>2, <1>3, <1>4

-----------------------------------------------------------------------------
(* Answers. *)

\* The calls left once c is answered, and what is sent then.
LeftAnd(c, sent) ==
  \E b \in BOOLEAN : calls' = {[d EXCEPT !.late = @ \/ b] : d \in calls \ {c}} \union sent

LEMMA SendsLeft ==
  ASSUME NEW c, NEW sent, Sends(c, sent)
  PROVE  LeftAnd(c, sent)
<1>1. (c.sets \in {"login", "clear"}) \in BOOLEAN
  OBVIOUS
<1> QED
  BY <1>1, Zenon DEF Sends, LeftAnd

LEMMA LostLeft ==
  ASSUME Core, NEW c, NEW sent, calls' = (calls \ {c}) \union sent
  PROVE  LeftAnd(c, sent)
<1>1. \A d \in calls : [d EXCEPT !.late = @ \/ FALSE] = d
  BY DEF Core, CallOK, Call
<1>2. calls' = {[d EXCEPT !.late = @ \/ FALSE] : d \in calls \ {c}} \union sent
  BY <1>1
<1> QED
  BY <1>2 DEF LeftAnd

LEMMA LeftOver ==
  ASSUME Core, Fits, OneCall, NEW c \in calls, NEW sent, LeftAnd(c, sent)
  PROVE  /\ \A e \in calls' : e \notin sent =>
              \E d \in calls : /\ d # c /\ Same(d, e) /\ e.exp = d.exp
                               /\ e.tab = c.tab => Together(c, e)
         /\ \A e, f \in calls' : e \notin sent /\ f \notin sent /\ e.tab = f.tab =>
              e = f \/ Together(e, f)
<1>0. PICK b \in BOOLEAN :
         calls' = {[d EXCEPT !.late = @ \/ b] : d \in calls \ {c}} \union sent
  BY DEF LeftAnd
<1> DEFINE mark(d) == [d EXCEPT !.late = @ \/ b]
<1>1. \A d \in calls : Same(d, mark(d)) /\ mark(d).exp = d.exp
  BY MarkLate DEF Core, Same, CallOK, Call
<1>2. \A e \in calls' : e \notin sent => \E d \in calls : d # c /\ e = mark(d)
  BY <1>0
<1> HIDE DEF mark
<1>3. ASSUME NEW e \in calls', e \notin sent
      PROVE  \E d \in calls : /\ d # c /\ Same(d, e) /\ e.exp = d.exp
                              /\ e.tab = c.tab => Together(c, e)
  <2>1. PICK d \in calls : d # c /\ e = mark(d)
    BY <1>2, <1>3
  <2>2. Same(d, e) /\ e.exp = d.exp
    BY <1>1, <2>1
  <2>3. c.tab = d.tab => Together(c, d)
    BY <2>1 DEF OneCall
  <2> QED
    BY <2>1, <2>2, <2>3 DEF Same, Together
<1>4. ASSUME NEW e \in calls', NEW f \in calls', e \notin sent, f \notin sent, e.tab = f.tab
      PROVE  e = f \/ Together(e, f)
  <2>1. PICK d \in calls : e = mark(d)
    BY <1>2, <1>4
  <2>2. PICK g \in calls : f = mark(g)
    BY <1>2, <1>4
  <2>3. Same(d, e) /\ Same(g, f)
    BY <1>1, <2>1, <2>2
  <2>4. d.tab = g.tab
    BY <1>4, <2>3 DEF Same
  <2>5. d = g \/ Together(d, g)
    BY <2>4 DEF OneCall
  <2> QED
    BY <2>1, <2>2, <2>3, <2>5 DEF Same, Together
<1> QED
  BY <1>3, <1>4

\* The tab of an answer moves on, and may send one call.
LEMMA AnswerFits ==
  ASSUME TypeOK, Core, Fits, OneCall, NEW c \in calls, NEW sent,
         LeftAnd(c, sent), \A t \in Tab : t # c.tab => tab'[t] = tab[t],
         \A n \in sent : /\ n.tab = c.tab /\ n.exp > 0 /\ KindFits(n, tab'[c.tab].pc)
                         /\ \A d \in calls : Together(c, d) => Together(n, d),
         \A n, m \in sent : n = m,
         c.tab \in Manager /\ c.kind \in {"refresh", "me"} =>
           tab'[c.tab].pc \in {"refresh", "me", "ready"},
         c.kind = "logout" => tab'[c.tab].pc = tab[c.tab].pc
  PROVE  Fits' /\ OneCall'
<1>0. c.tab \in Tab /\ \A d \in calls : d.tab \in Tab
  BY DEF Core, CallOK, Call
<1>1. \A t \in Tab : t # c.tab => tab'[t] = tab[t]
  OBVIOUS
<1>2. /\ \A e \in calls' : e \notin sent =>
           \E d \in calls : /\ d # c /\ Same(d, e) /\ e.exp = d.exp
                            /\ e.tab = c.tab => Together(c, e)
      /\ \A e, f \in calls' : e \notin sent /\ f \notin sent /\ e.tab = f.tab =>
           e = f \/ Together(e, f)
  BY LeftOver
<1>3. ASSUME NEW e \in calls', e \notin sent PROVE KindFits(e, tab'[e.tab].pc) /\ e.exp > 0
  <2>1. PICK d \in calls : /\ d # c /\ Same(d, e) /\ e.exp = d.exp
                           /\ e.tab = c.tab => Together(c, e)
    BY <1>2, <1>3
  <2>2. KindFits(d, tab[d.tab].pc) /\ d.exp > 0
    BY DEF Fits
  <2>3. CASE e.tab # c.tab
    <3>1. tab'[e.tab] = tab[d.tab]
      BY <1>0, <1>1, <2>1, <2>3 DEF Same
    <3> QED
      BY <2>1, <2>2, <3>1 DEF KindFits, Same
  <2>4. CASE e.tab = c.tab
    <3>1. Together(c, e) /\ d.tab = c.tab
      BY <2>1, <2>4 DEF Same
    <3>2. CASE c.kind = "logout" /\ e.kind \in {"refresh", "me"}
      <4>1. tab'[e.tab].pc = tab[d.tab].pc
        BY <1>1, <2>4, <3>1, <3>2
      <4> QED
        BY <2>1, <2>2, <3>2, <4>1 DEF KindFits, Same
    <3>3. CASE e.kind = "logout" /\ c.kind \in {"refresh", "me"}
      <4>1. tab'[e.tab].pc \in {"refresh", "me", "ready"} /\ e.tab \in Manager
        BY <1>1, <2>4, <3>1, <3>3 DEF Together
      <4> QED
        BY <2>1, <2>2, <3>3, <4>1 DEF KindFits, Same
    <3> QED
      BY <3>1, <3>2, <3>3 DEF Together
  <2> QED
    BY <2>3, <2>4
<1>4. Fits'
  <2>1. ASSUME NEW e \in calls' PROVE KindFits(e, tab'[e.tab].pc) /\ e.exp > 0
    <3>1. CASE e \in sent
      BY <1>1, <3>1
    <3> QED
      BY <1>3, <3>1
  <2> QED
    BY <2>1 DEF Fits
<1>5. ASSUME NEW e \in calls', NEW f \in calls', e.tab = f.tab PROVE e = f \/ Together(e, f)
  <2>1. CASE e \notin sent /\ f \notin sent
    BY <1>2, <1>5, <2>1
  <2>2. CASE e \in sent /\ f \in sent
    BY <2>2
  <2>3. ASSUME NEW g \in sent, NEW h \in calls', h \notin sent, g.tab = h.tab
        PROVE  Together(g, h) /\ Together(h, g)
    <3>1. h.tab = c.tab
      BY <2>3
    <3>2. PICK d \in calls : Same(d, h) /\ Together(c, h)
      BY <1>2, <2>3, <3>1
    <3>3. Together(c, d)
      BY <3>2 DEF Same, Together
    <3>4. Together(g, d)
      BY <3>3
    <3> QED
      BY <2>3, <3>2, <3>4 DEF Same, Together
  <2> QED
    BY <1>5, <2>1, <2>2, <2>3
<1> QED
  BY <1>4, <1>5 DEF OneCall

Kept == Fits /\ OneCall /\ Sound

LEMMA OthersSound ==
  ASSUME TypeOK, Core, Kept, NEW c \in calls, NEW sent, LeftAnd(c, sent),
         \A n \in sent : n.tab = c.tab, \A u \in Tab : u # c.tab => tab'[u] = tab[u],
         jar' = stored(jar, c) \/ jar' = jar, users \subseteq users',
         NEW t \in Tab, t # c.tab, sure[t], login_required(jar') = login_required(jar)
  PROVE  SoundAt(t)'
<1>1. CallOK(c) /\ c.exp > 0 /\ JarOK(jar) /\ c.tab \in Tab
  BY DEF Core, Kept, Fits, CallOK, Call
<1>2. Calm
  <2>1. CASE jar' = jar
    BY <2>1 DEF Calm
  <2>2. CASE jar' = stored(jar, c)
    BY <1>1, <2>2, StoredCalm DEF Calm
  <2> QED
    BY <2>1, <2>2
<1>3. tab'[t] = tab[t]
  OBVIOUS
<1>4. \A e \in calls' : e.tab = t => \E d \in calls : Same(d, e)
  <2>1. \A e \in calls' : e \notin sent => \E d \in calls : Same(d, e)
    BY LeftOver DEF Kept
  <2> QED
    BY <2>1
<1>5. SoundAt(t)
  BY DEF Kept, Sound
<1> QED
  BY <1>2, <1>3, <1>4, <1>5, StaysSound

LEMMA Unsettled ==
  ASSUME NEW c, Unsettles(c), NEW t \in Tab, sure'[t]
  PROVE  /\ sure[t] /\ (t = c.tab \/ login_required(jar') = login_required(jar))
         /\ c.kind = "logout" /\ t = c.tab => \A d \in calls : d.tab = t => d.kind # "me"
BY DEF Unsettles

LEMMA UsersGrow == \A j : users \subseteq users_after_me(j)
BY DEF users_after_me

\* The refresh is answered: the page goes on to /auth/me, or is ready and shows nobody.
LEMMA RefreshReceived ==
  ASSUME TypeOK, Core, Kept, NEW c \in calls, receive_refresh(c)
  PROVE  Kept'
<1> DEFINE t == c.tab
<1>0. /\ c.kind = "refresh" /\ Arrives(c) /\ Unsettles(c) /\ t \in Tab
      /\ CallOK(c) /\ JarOK(jar) /\ KindFits(c, tab[t].pc) /\ c.exp > 0 /\ jar' = stored(jar, c)
      /\ tab \in [Tab -> [pc : {"closed", "refresh", "me", "ready", "callback", "error"},
                          shown : User \union {Nobody}]]
  BY DEF receive_refresh, Core, CallOK, Call, Kept, Fits, Arrives, TypeOK
<1>a. JarOK(jar')
  BY <1>0, ArrivalKeepsJar
<1>b. t \in Manager \/ t \in Mapper
  BY <1>0 DEF Tab
<1>1. CASE wants_me(c) /\ tab' = [tab EXCEPT ![c.tab].pc = "me"]
           /\ Sends(c, {AskMe(c.tab, jar')}) /\ users' = users_after_me(jar')
  <2>a. PICK n : n = AskMe(t, jar')
    OBVIOUS
  <2>1. /\ n.tab = t /\ n.kind = "me" /\ n.sets = "nothing" /\ n.exp > 0
        /\ n.who # Nobody => n.who = login_required(jar') /\ n.who \in users'
    BY <1>1, <1>a, <2>a, MeSound
  <2>2. LeftAnd(c, {n})
    BY <1>1, <2>a, SendsLeft
  <2>3. tab'[t].pc = "me" /\ \A u \in Tab : u # t => tab'[u] = tab[u]
    BY <1>0, <1>1
  <2>5. KindFits(n, tab'[t].pc)
    BY <2>1, <2>3 DEF KindFits
  <2>6. \A d \in calls : Together(c, d) => Together(n, d)
    BY <1>0, <2>1 DEF Together
  <2>7. Fits' /\ OneCall'
    BY <1>0, <2>1, <2>2, <2>3, <2>5, <2>6, AnswerFits DEF Kept
  <2>8. ASSUME NEW u \in Tab, sure'[u] PROVE SoundAt(u)'
    <3>1. CASE u # t
      <4>1. sure[u] /\ login_required(jar') = login_required(jar)
        BY <1>0, <2>8, <3>1, Unsettled
      <4> QED
        BY <1>0, <1>1, <2>1, <2>2, <2>3, <3>1, <4>1, OthersSound, UsersGrow
    <3>2. CASE u = t
      <4>1. ASSUME NEW e \in calls', e.tab = t PROVE SoundCall(e)'
        <5>1. CASE e = n
          BY <2>1, <5>1 DEF SoundCall
        <5>2. CASE e # n
          <6>1. Together(c, e)
            BY <1>0, <2>2, <4>1, <5>2, LeftOver DEF Kept
          <6> QED
            BY <1>0, <6>1 DEF Together, SoundCall
        <5> QED
          BY <5>1, <5>2
      <4> QED
        BY <2>3, <3>2, <4>1 DEF SoundAt
    <3> QED
      BY <3>1, <3>2
  <2> QED
    BY <2>7, <2>8 DEF Kept, Sound
<1>2. CASE ~wants_me(c) /\ Shows(c.tab, Nobody, "ready") /\ Sends(c, {}) /\ users' = users
  <2>1. LeftAnd(c, {})
    BY <1>2, SendsLeft
  <2>2. /\ tab'[t].pc = "ready" /\ tab'[t].shown = Nobody
        /\ \A u \in Tab : u # t => tab'[u] = tab[u]
    BY <1>0, <1>2 DEF Shows
  <2>4. Fits' /\ OneCall'
    BY <1>0, <2>1, <2>2, AnswerFits DEF Kept
  <2>5. ASSUME NEW u \in Tab, sure'[u] PROVE SoundAt(u)'
    <3>1. CASE u # t
      <4>1. sure[u] /\ login_required(jar') = login_required(jar)
        BY <1>0, <2>5, <3>1, Unsettled
      <4> QED
        BY <1>0, <1>2, <2>1, <2>2, <3>1, <4>1, OthersSound
    <3>2. CASE u = t
      <4>1. ASSUME NEW e \in calls', e.tab = t PROVE SoundCall(e)'
        <5>1. Together(c, e)
          BY <1>0, <2>1, <4>1, LeftOver DEF Kept
        <5> QED
          BY <1>0, <5>1 DEF Together, SoundCall
      <4>2. SoundCall(c)
        BY <1>0, <2>5, <3>2, Unsettled DEF Kept, Sound, SoundAt
      <4>3. /\ login_required(jar') = Nobody
            /\ t \in Mapper => mapper_login_required(jar') = SvcUser
        <5>1. CASE t \in Manager
          <6>1. c.sets = "nothing" /\ login_required(jar) = Nobody /\ t \notin Mapper
            BY <1>0, <1>2, <4>2, <5>1, SessionsAssumption DEF KindFits, wants_me, SoundCall
          <6> QED
            BY <1>0, <6>1 DEF stored
        <5>2. CASE t \in Mapper
          <6>1. c.who = SvcUser /\ c.sets = "temp" /\ jar.main = None
            BY <1>0, <1>2, <4>2, <5>2, SessionsAssumption DEF KindFits, wants_me, SoundCall
          <6>2. /\ jar'.main = None
                /\ jar'.temp = [who |-> SvcUser, exp |-> c.exp, until |-> Day]
            BY <1>0, <6>1 DEF stored, JarOK, Jar
          <6> QED
            BY <1>0, <6>2 DEF login_required, mapper_login_required, holder
        <5> QED
          BY <1>b, <5>1, <5>2
      <4> QED
        BY <2>2, <3>2, <4>1, <4>3 DEF SoundAt
    <3> QED
      BY <3>1, <3>2
  <2> QED
    BY <2>4, <2>5 DEF Kept, Sound
<1> QED
  BY <1>1, <1>2 DEF receive_refresh

\* An answer, or its loss, in one: what is left to show is the tab's own session.
LEMMA AnswerKept ==
  ASSUME TypeOK, Core, Kept, NEW c \in calls, NEW sent,
         LeftAnd(c, sent), \A t \in Tab : t # c.tab => tab'[t] = tab[t],
         \A n \in sent : /\ n.tab = c.tab /\ n.exp > 0 /\ KindFits(n, tab'[c.tab].pc)
                         /\ \A d \in calls : Together(c, d) => Together(n, d),
         \A n, m \in sent : n = m,
         c.tab \in Manager /\ c.kind \in {"refresh", "me"} =>
           tab'[c.tab].pc \in {"refresh", "me", "ready"},
         c.kind = "logout" => tab'[c.tab].pc = tab[c.tab].pc,
         jar' = stored(jar, c) \/ jar' = jar, users \subseteq users',
         \A u \in Tab : sure'[u] /\ u # c.tab =>
           sure[u] /\ login_required(jar') = login_required(jar),
         sure'[c.tab] => SoundAt(c.tab)'
  PROVE  Kept'
<1>1. Fits' /\ OneCall'
  BY AnswerFits DEF Kept
<1>2. ASSUME NEW u \in Tab, sure'[u] PROVE SoundAt(u)'
  <2>1. CASE u # c.tab
    <3>1. sure[u] /\ login_required(jar') = login_required(jar)
      BY <1>2, <2>1
    <3> QED
      BY <2>1, <3>1, OthersSound
  <2>2. CASE u = c.tab
    BY <1>2, <2>2
  <2> QED
    BY <2>1, <2>2
<1> QED
  BY <1>1, <1>2 DEF Kept, Sound

\* What an answer in flight comes with.
LEMMA Awaited ==
  ASSUME TypeOK, Core, Kept, NEW c \in calls
  PROVE  /\ c.tab \in Tab /\ (c.tab \in Manager \/ c.tab \in Mapper)
         /\ c.tab \in Manager => c.tab \notin Mapper
         /\ c.kind \in {"refresh", "me", "logout", "temp", "callback"}
         /\ CallOK(c) /\ JarOK(jar) /\ KindFits(c, tab[c.tab].pc) /\ c.exp > 0
         /\ tab \in [Tab -> [pc : {"closed", "refresh", "me", "ready", "callback", "error"},
                             shown : User \union {Nobody}]]
BY SessionsAssumption DEF Core, CallOK, Call, Kept, Fits, TypeOK, Tab

LEMMA EmptyJar == login_required(Empty) = Nobody /\ mapper_login_required(Empty) = SvcUser
BY DEF login_required, mapper_login_required, Empty

\* The failure of /auth/me: the management tab is unsettled, the mapper's shows an error.
LEMMA MeFailed ==
  ASSUME TypeOK, Core, Kept, NEW c \in calls, c.kind = "me", me_fails(c), jar' = jar, users' = users
  PROVE  Kept'
<1> DEFINE t == c.tab
<1>0. /\ t \in Tab /\ (t \in Manager \/ t \in Mapper) /\ (t \in Manager => t \notin Mapper)
      /\ tab \in [Tab -> [pc : {"closed", "refresh", "me", "ready", "callback", "error"},
                          shown : User \union {Nobody}]]
      /\ users \subseteq users'
  BY Awaited
<1>1. CASE t \in Manager
  <2>1. /\ tab' = [tab EXCEPT ![c.tab].pc = "ready"] /\ Sends(c, {})
        /\ sure' = [sure EXCEPT ![c.tab] = FALSE] /\ sure \in [Tab -> BOOLEAN]
    BY <1>1 DEF me_fails, TypeOK
  <2>2. LeftAnd(c, {})
    BY <2>1, SendsLeft
  <2>3. tab'[t].pc = "ready" /\ \A u \in Tab : u # t => tab'[u] = tab[u]
    BY <1>0, <2>1
  <2>4. ~sure'[t] /\ \A u \in Tab : sure'[u] /\ u # t => sure[u]
    BY <1>0, <2>1
  <2> QED
    BY <1>0, <2>2, <2>3, <2>4, AnswerKept
<1>2. CASE t \in Mapper
  <2>0. t \notin Manager
    BY <1>0, <1>2
  <2>1. Shows(t, Nobody, "error") /\ Sends(c, {AskTemp(t, jar')}) /\ sure' = sure
    BY <1>2, <2>0 DEF me_fails, signs_out
  <2>a. PICK n : n = AskTemp(t, jar')
    OBVIOUS
  <2>2. n.tab = t /\ n.kind = "temp" /\ n.exp > 0
    BY <2>a, TempSound
  <2>3. LeftAnd(c, {n})
    BY <2>1, <2>a, SendsLeft
  <2>4. tab'[t].pc = "error" /\ \A u \in Tab : u # t => tab'[u] = tab[u]
    BY <1>0, <2>1 DEF Shows
  <2>5. KindFits(n, tab'[t].pc) /\ \A d : ~Together(c, d)
    BY <1>2, <2>0, <2>2, <2>4 DEF KindFits, Together
  <2>6. ASSUME NEW e \in calls', e.tab = t PROVE SoundCall(e)'
    <3>1. CASE e = n
      BY <2>2, <3>1 DEF SoundCall
    <3>2. CASE e # n
      BY <2>3, <2>5, <2>6, <3>2, LeftOver DEF Kept
    <3> QED
      BY <3>1, <3>2
  <2>7. SoundAt(t)'
    BY <2>4, <2>6 DEF SoundAt
  <2> QED
    BY <1>0, <2>0, <2>1, <2>2, <2>3, <2>4, <2>5, <2>7, AnswerKept
<1> QED
  BY <1>0, <1>1, <1>2

LEMMA MeReceived ==
  ASSUME TypeOK, Core, Kept, NEW c \in calls, receive_me(c)
  PROVE  Kept'
<1> DEFINE t == c.tab
<1>0. /\ t \in Tab /\ (t \in Manager => t \notin Mapper) /\ KindFits(c, tab[t].pc)
      /\ tab \in [Tab -> [pc : {"closed", "refresh", "me", "ready", "callback", "error"},
                          shown : User \union {Nobody}]]
  BY Awaited
<1>1. c.kind = "me" /\ c.sets = "nothing" /\ jar' = jar /\ users' = users
  BY <1>0 DEF receive_me, Arrives, stored, KindFits
<1>2. CASE c.who # Nobody /\ Shows(c.tab, c.who, "ready") /\ Sends(c, {}) /\ sure' = sure
  <2>1. LeftAnd(c, {})
    BY <1>2, SendsLeft
  <2>2. /\ tab'[t].pc = "ready" /\ tab'[t].shown = c.who
        /\ \A u \in Tab : u # t => tab'[u] = tab[u]
    BY <1>0, <1>2 DEF Shows
  <2>3. ASSUME sure[t] PROVE SoundAt(t)'
    <3>1. ASSUME NEW e \in calls', e.tab = t PROVE SoundCall(e)'
      <4>1. Together(c, e)
        BY <2>1, <3>1, LeftOver DEF Kept
      <4> QED
        BY <1>1, <4>1 DEF Together, SoundCall
    <3>2. c.who = login_required(jar) /\ c.who \in users
      BY <1>0, <1>1, <1>2, <2>3 DEF Kept, Sound, SoundAt, SoundCall
    <3> QED
      BY <1>1, <1>2, <2>2, <3>1, <3>2 DEF SoundAt
  <2> QED
    BY <1>0, <1>1, <1>2, <2>1, <2>2, <2>3, AnswerKept
<1>3. CASE c.who = Nobody /\ me_fails(c)
  BY <1>1, <1>3, MeFailed
<1> QED
  BY <1>2, <1>3 DEF receive_me

\* The sign-out is answered: there are no cookies left, and nobody is shown.
LEMMA LogoutReceived ==
  ASSUME TypeOK, Core, Kept, NEW c \in calls, receive_logout(c)
  PROVE  Kept'
<1> DEFINE t == c.tab
<1>0. /\ t \in Tab /\ (t \in Manager \/ t \in Mapper) /\ (t \in Manager => t \notin Mapper)
      /\ KindFits(c, tab[t].pc)
      /\ tab \in [Tab -> [pc : {"closed", "refresh", "me", "ready", "callback", "error"},
                          shown : User \union {Nobody}]]
  BY Awaited
<1>1. /\ c.kind = "logout" /\ c.sets = "clear" /\ jar' = Empty /\ users' = users
      /\ jar' = stored(jar, c) /\ Unsettles(c) /\ Shows(t, Nobody, tab[t].pc)
      /\ Sends(c, IF t \in Mapper THEN {AskTemp(t, jar')} ELSE {})
  BY <1>0 DEF receive_logout, signs_out, Arrives, stored, logout, KindFits
<1>2. /\ tab'[t].pc = tab[t].pc /\ tab'[t].shown = Nobody
      /\ \A u \in Tab : u # t => tab'[u] = tab[u]
  BY <1>0, <1>1 DEF Shows
<1>3. \A u \in Tab : sure'[u] /\ u # t => sure[u] /\ login_required(jar') = login_required(jar)
  BY <1>1, Unsettled
<1>4. login_required(jar') = Nobody /\ mapper_login_required(jar') = SvcUser
  BY <1>1, EmptyJar
<1>5. ASSUME \A e \in calls' : e.tab = t => SoundCall(e)' PROVE SoundAt(t)'
  BY <1>2, <1>4, <1>5 DEF SoundAt
<1>6. CASE t \in Manager
  <2>1. LeftAnd(c, {})
    BY <1>0, <1>1, <1>6, SendsLeft
  <2>2. ASSUME sure'[t], NEW e \in calls', e.tab = t PROVE SoundCall(e)'
    <3>1. PICK d \in calls : Same(d, e) /\ Together(c, e)
      BY <2>1, <2>2, LeftOver DEF Kept
    <3>2. d.tab = t
      BY <2>2, <3>1 DEF Same
    <3>3. d.kind # "me"
      BY <1>0, <1>1, <2>2, <3>2, Unsettled
    <3>a. e.tab = t
      BY <2>2
    <3>4. e.kind = "refresh" /\ e.tab \in Manager
      BY <1>1, <1>6, <3>1, <3>3, <3>a DEF Same, Together
    <3> QED
      BY <1>4, <3>4 DEF SoundCall
  <2>3. sure'[t] => SoundAt(t)'
    BY <1>5, <2>2
  <2>4. t \in Manager /\ c.kind \in {"refresh", "me"} => tab'[t].pc \in {"refresh", "me", "ready"}
    BY <1>1
  <2> QED
    BY <1>1, <1>2, <1>3, <2>1, <2>3, <2>4, AnswerKept
<1>7. CASE t \in Mapper
  <2>0. t \notin Manager
    BY <1>0, <1>7
  <2>a. PICK n : n = AskTemp(t, jar')
    OBVIOUS
  <2>1. n.tab = t /\ n.kind = "temp" /\ n.exp > 0 /\ n.sets = "temp"
    BY <1>1, <2>a, TempSound
  <2>2. LeftAnd(c, {n})
    BY <1>1, <1>7, <2>a, SendsLeft
  <2>3. KindFits(n, tab'[t].pc) /\ \A d : ~Together(c, d)
    BY <1>0, <1>1, <1>2, <1>7, <2>0, <2>1 DEF KindFits, Together
  <2>4. ASSUME NEW e \in calls', e.tab = t PROVE SoundCall(e)'
    <3>1. CASE e = n
      BY <2>1, <3>1 DEF SoundCall
    <3>2. CASE e # n
      BY <2>2, <2>3, <2>4, <3>2, LeftOver DEF Kept
    <3> QED
      BY <3>1, <3>2
  <2>5. SoundAt(t)'
    BY <1>5, <2>4
  <2> QED
    BY <1>1, <1>2, <1>3, <2>0, <2>1, <2>2, <2>3, <2>5, AnswerKept
<1> QED
  BY <1>0, <1>6, <1>7

LEMMA TempReceived ==
  ASSUME TypeOK, Core, Kept, NEW c \in calls, receive_temp(c)
  PROVE  Kept'
<1> DEFINE t == c.tab
<1>0. /\ t \in Tab /\ (t \in Manager => t \notin Mapper) /\ KindFits(c, tab[t].pc)
      /\ CallOK(c) /\ JarOK(jar) /\ c.exp > 0
  BY Awaited
<1>1. /\ c.kind = "temp" /\ jar' = stored(jar, c) /\ Unsettles(c) /\ Sends(c, {})
      /\ users' = users /\ tab' = tab
  BY DEF receive_temp, Arrives
<1>2. LeftAnd(c, {}) /\ t \in Mapper /\ t \notin Manager
  BY <1>0, <1>1, SendsLeft DEF KindFits
<1>3. \A u \in Tab : sure'[u] /\ u # t => sure[u] /\ login_required(jar') = login_required(jar)
  BY <1>1, Unsettled
<1>4. ASSUME sure'[t] PROVE SoundAt(t)'
  <2>1. \A e \in calls' : e.tab # t
    BY <1>2, LeftOver DEF Kept, Together
  <2>2. SoundAt(t)
    BY <1>0, <1>1, <1>4, Unsettled DEF Kept, Sound
  <2>3. ASSUME tab[t].pc = "ready"
        PROVE  /\ login_required(jar') = login_required(jar)
               /\ mapper_login_required(jar) = SvcUser => mapper_login_required(jar') = SvcUser
    <3>1. c.sets = "temp" /\ jar \in Jar
      BY <1>0, <1>1, <2>3 DEF KindFits, JarOK
    <3>2. jar'.main = jar.main
      BY <1>0, <1>1, <3>1, StoredOther
    <3>3. login_required(jar') = login_required(jar)
      BY <3>2 DEF login_required
    <3> QED
      BY <1>0, <1>1, <3>3, StoredCalm
  <2> QED
    BY <1>1, <2>1, <2>2, <2>3 DEF SoundAt
<1> QED
  BY <1>1, <1>2, <1>3, <1>4, AnswerKept

\* Signed in, the page that asked for it is loaded.
LEMMA CallbackReceived ==
  ASSUME TypeOK, Core, Kept, NEW c \in calls, receive_callback(c)
  PROVE  Kept'
<1> DEFINE t == c.tab
<1>0. /\ t \in Tab /\ (t \in Manager \/ t \in Mapper) /\ KindFits(c, tab[t].pc)
      /\ tab \in [Tab -> [pc : {"closed", "refresh", "me", "ready", "callback", "error"},
                          shown : User \union {Nobody}]]
  BY Awaited
<1>1. c.kind = "callback" /\ Arrives(c) /\ jar' = stored(jar, c) /\ Unsettles(c)
  BY DEF receive_callback, Arrives
<1>2. JarOK(jar') /\ \A d : ~Together(c, d)
  BY <1>1, ArrivalKeepsJar DEF Together
<1>3. \A u \in Tab : sure'[u] /\ u # t => sure[u] /\ login_required(jar') = login_required(jar)
  BY <1>1, Unsettled
<1>4. ASSUME NEW n, LeftAnd(c, {n}), n.tab = t, SoundCall(n)', tab'[t].pc # "ready" PROVE SoundAt(t)'
  <2>1. ASSUME NEW e \in calls', e.tab = t PROVE SoundCall(e)'
    <3>1. CASE e = n
      BY <1>4, <3>1
    <3>2. CASE e # n
      BY <1>2, <1>4, <2>1, <3>2, LeftOver DEF Kept
    <3> QED
      BY <3>1, <3>2
  <2> QED
    BY <1>4, <2>1 DEF SoundAt
<1>5. CASE t \in Manager
  <2>1. /\ tab' = [tab EXCEPT ![c.tab].pc = "me"] /\ Sends(c, {AskMe(t, jar')})
        /\ users' = users_after_me(jar')
    BY <1>5 DEF receive_callback
  <2>a. PICK n : n = AskMe(t, jar')
    OBVIOUS
  <2>2. /\ n.tab = t /\ n.kind = "me" /\ n.sets = "nothing" /\ n.exp > 0
        /\ n.who # Nobody => n.who = login_required(jar') /\ n.who \in users'
    BY <1>2, <2>1, <2>a, MeSound
  <2>3. LeftAnd(c, {n})
    BY <2>1, <2>a, SendsLeft
  <2>4. tab'[t].pc = "me" /\ \A u \in Tab : u # t => tab'[u] = tab[u]
    BY <1>0, <2>1
  <2>5. KindFits(n, tab'[t].pc) /\ SoundCall(n)'
    BY <2>2, <2>4 DEF KindFits, SoundCall
  <2>6. SoundAt(t)'
    BY <1>4, <2>2, <2>3, <2>4, <2>5
  <2> QED
    BY <1>1, <1>2, <1>3, <2>1, <2>2, <2>3, <2>4, <2>5, <2>6, AnswerKept, UsersGrow
<1>6. CASE t \notin Manager
  <2>1. /\ tab' = [tab EXCEPT ![c.tab] = [pc |-> "refresh", shown |-> Nobody]]
        /\ Sends(c, {AskRefresh(t, jar')}) /\ users' = users
    BY <1>6 DEF receive_callback
  <2>a. PICK n : n = AskRefresh(t, jar')
    OBVIOUS
  <2>2. /\ n.tab = t /\ n.kind = "refresh" /\ n.exp > 0
        /\ n.who = SvcUser => n.sets = "temp" /\ jar'.main = None
    BY <1>0, <1>2, <2>a, RefreshSound
  <2>3. LeftAnd(c, {n})
    BY <2>1, <2>a, SendsLeft
  <2>4. tab'[t].pc = "refresh" /\ \A u \in Tab : u # t => tab'[u] = tab[u]
    BY <1>0, <2>1
  <2>5. KindFits(n, tab'[t].pc) /\ SoundCall(n)'
    BY <1>6, <2>2, <2>4 DEF KindFits, SoundCall
  <2>6. SoundAt(t)'
    BY <1>4, <2>2, <2>3, <2>4, <2>5
  <2> QED
    BY <1>1, <1>2, <1>3, <1>6, <2>1, <2>2, <2>3, <2>4, <2>5, <2>6, AnswerKept
<1> QED
  BY <1>5, <1>6

LEMMA AnswerLost ==
  ASSUME TypeOK, Core, Kept, NEW c \in calls, lose(c)
  PROVE  Kept'
<1> DEFINE t == c.tab
<1>0. /\ t \in Tab /\ (t \in Manager \/ t \in Mapper) /\ (t \in Manager => t \notin Mapper)
      /\ c.kind \in {"refresh", "me", "logout", "temp", "callback"}
      /\ JarOK(jar) /\ KindFits(c, tab[t].pc)
      /\ tab \in [Tab -> [pc : {"closed", "refresh", "me", "ready", "callback", "error"},
                          shown : User \union {Nobody}]]
      /\ jar' = jar /\ sure \in [Tab -> BOOLEAN]
  BY Awaited DEF lose, TypeOK
<1>1. CASE c.kind = "refresh" /\ t \in Manager
  <2>1. /\ Shows(t, Nobody, "ready") /\ calls' = calls \ {c} /\ users' = users
        /\ sure' = [sure EXCEPT ![c.tab] = FALSE]
    BY <1>0, <1>1 DEF lose
  <2>2. LeftAnd(c, {})
    BY <2>1, LostLeft
  <2>3. tab'[t].pc = "ready" /\ \A u \in Tab : u # t => tab'[u] = tab[u]
    BY <1>0, <2>1 DEF Shows
  <2>4. ~sure'[t] /\ \A u \in Tab : sure'[u] /\ u # t => sure[u]
    BY <1>0, <2>1
  <2> QED
    BY <1>0, <1>1, <2>1, <2>2, <2>3, <2>4, AnswerKept
<1>2. CASE c.kind = "refresh" /\ t \in Mapper
  <2>0. t \notin Manager
    BY <1>0, <1>2
  <2>1. /\ tab' = [tab EXCEPT ![c.tab].pc = "me"] /\ calls' = (calls \ {c}) \union {AskMe(t, jar)}
        /\ users' = users_after_me(jar) /\ sure' = sure
    BY <1>2, <2>0 DEF lose
  <2>a. PICK n : n = AskMe(t, jar)
    OBVIOUS
  <2>2. /\ n.tab = t /\ n.kind = "me" /\ n.sets = "nothing" /\ n.exp > 0
        /\ n.who # Nobody => n.who = login_required(jar') /\ n.who \in users'
    BY <1>0, <2>1, <2>a, MeSound
  <2>3. LeftAnd(c, {n})
    BY <2>1, <2>a, LostLeft
  <2>4. tab'[t].pc = "me" /\ \A u \in Tab : u # t => tab'[u] = tab[u]
    BY <1>0, <2>1
  <2>5. KindFits(n, tab'[t].pc) /\ \A d : ~Together(c, d)
    BY <1>2, <2>0, <2>2, <2>4 DEF KindFits, Together
  <2>6. ASSUME NEW e \in calls', e.tab = t PROVE SoundCall(e)'
    <3>1. CASE e = n
      BY <2>2, <3>1 DEF SoundCall
    <3>2. CASE e # n
      BY <2>3, <2>5, <2>6, <3>2, LeftOver DEF Kept
    <3> QED
      BY <3>1, <3>2
  <2>7. SoundAt(t)'
    BY <2>4, <2>6 DEF SoundAt
  <2>8. users \subseteq users'
    BY <2>1, UsersGrow
  <2> QED
    BY <1>0, <1>2, <2>0, <2>1, <2>2, <2>3, <2>4, <2>5, <2>7, <2>8, AnswerKept
<1>3. CASE c.kind = "me"
  <2>1. me_fails(c) /\ users' = users
    BY <1>3 DEF lose
  <2> QED
    BY <1>0, <1>3, <2>1, MeFailed
<1>4. CASE c.kind = "callback"
  <2>1. /\ tab' = [tab EXCEPT ![c.tab].pc = "error"] /\ calls' = calls \ {c}
        /\ users' = users /\ sure' = sure
    BY <1>4 DEF lose
  <2>2. LeftAnd(c, {}) /\ \A d : ~Together(c, d)
    BY <1>4, <2>1, LostLeft DEF Together
  <2>3. tab'[t].pc = "error" /\ \A u \in Tab : u # t => tab'[u] = tab[u]
    BY <1>0, <2>1
  <2>4. \A e \in calls' : e.tab # t
    BY <2>2, LeftOver DEF Kept
  <2>5. SoundAt(t)'
    BY <2>3, <2>4 DEF SoundAt
  <2> QED
    BY <1>0, <1>4, <2>1, <2>2, <2>3, <2>5, AnswerKept
<1>5. CASE c.kind \in {"logout", "temp"}
  <2>1. calls' = calls \ {c} /\ users' = users /\ tab' = tab /\ sure' = sure
    BY <1>5 DEF lose
  <2>2. LeftAnd(c, {})
    BY <2>1, LostLeft
  <2>3. ASSUME sure'[t] PROVE SoundAt(t)'
    <3>1. SoundAt(t)
      BY <1>0, <2>1, <2>3 DEF Kept, Sound
    <3> QED
      BY <1>0, <2>1, <3>1, StaysSound DEF Calm, Same
  <2> QED
    BY <1>0, <1>5, <2>1, <2>2, <2>3, AnswerKept
<1> QED
  BY <1>0, <1>1, <1>2, <1>3, <1>4, <1>5

-----------------------------------------------------------------------------
(* The steps of a page, of the clock and of an administrator. *)

\* A tab sends n: its only call, unless it signs out of a page that is loading.
LEMMA AskKept ==
  ASSUME TypeOK, Core, Kept, NEW t \in Tab, NEW n, calls' = calls \union {n},
         n.tab = t, n.exp > 0, KindFits(n, tab'[t].pc), UNCHANGED <<jar, users>>,
         \A u \in Tab : u # t => tab'[u] = tab[u],
         \A d \in calls : d.tab = t => Together(n, d) /\ tab'[t] = tab[t],
         \A u \in Tab : sure'[u] /\ u # t => sure[u],
         sure'[t] => SoundAt(t)'
  PROVE  Kept'
<1>0. \A d \in calls : d.tab \in Tab
  BY DEF Core, CallOK, Call
<1>1. \A u \in Tab : u # t => tab'[u] = tab[u]
  OBVIOUS
<1>2. \A d \in calls : d.tab = t => Together(n, d) /\ tab'[t] = tab[t]
  OBVIOUS
<1>3. Fits'
  <2>1. ASSUME NEW e \in calls' PROVE KindFits(e, tab'[e.tab].pc) /\ e.exp > 0
    <3>1. CASE e = n
      BY <3>1
    <3>2. CASE e \in calls
      <4>1. tab'[e.tab] = tab[e.tab]
        BY <1>0, <1>1, <1>2, <3>2
      <4> QED
        BY <3>2, <4>1 DEF Kept, Fits
    <3> QED
      BY <3>1, <3>2
  <2> QED
    BY <2>1 DEF Fits
<1>4. OneCall'
  <2>1. ASSUME NEW e \in calls', NEW f \in calls', e.tab = f.tab PROVE e = f \/ Together(e, f)
    <3>1. CASE e \in calls /\ f \in calls
      BY <2>1, <3>1 DEF Kept, OneCall
    <3>2. CASE e = n /\ f \in calls
      BY <1>2, <2>1, <3>2
    <3>3. CASE f = n /\ e \in calls
      <4>1. Together(f, e)
        BY <1>2, <2>1, <3>3
      <4> QED
        BY <2>1, <4>1 DEF Together
    <3> QED
      BY <3>1, <3>2, <3>3
  <2> QED
    BY <2>1 DEF OneCall
<1>5. ASSUME NEW u \in Tab, sure'[u] PROVE SoundAt(u)'
  <2>1. CASE u = t
    BY <1>5, <2>1
  <2>2. CASE u # t
    <3>1. SoundAt(u)
      BY <1>5, <2>2 DEF Kept, Sound
    <3>2. \A e \in calls' : e.tab = u => \E d \in calls : Same(d, e)
      BY <2>2 DEF Same
    <3> QED
      BY <1>1, <2>2, <3>1, <3>2, StaysSound DEF Calm
  <2> QED
    BY <2>1, <2>2
<1> QED
  BY <1>3, <1>4, <1>5 DEF Kept, Sound

LEMMA LoadKept ==
  ASSUME TypeOK, Core, Kept, NEW t \in Tab, load_page(t)
  PROVE  Kept'
<1>a. PICK n : n = AskRefresh(t, jar)
  OBVIOUS
<1>1. /\ calls' = calls \union {n} /\ UNCHANGED <<jar, users>> /\ Quiet(t)
      /\ tab' = [tab EXCEPT ![t] = [pc |-> "refresh", shown |-> IF t \in Manager THEN kept ELSE Nobody]]
      /\ sure' = [sure EXCEPT ![t] = TRUE]
  BY <1>a DEF load_page
<1>2. /\ n.tab = t /\ n.kind = "refresh" /\ n.exp > 0
      /\ t \in Manager => n.sets \in {"main", "nothing"} /\ n.who # SvcUser
      /\ t \in Manager /\ n.sets # "main" => login_required(jar) = Nobody
      /\ n.who = SvcUser => n.sets = "temp" /\ jar.main = None
  BY <1>a, RefreshSound DEF Core
<1>3. tab'[t].pc = "refresh" /\ \A u \in Tab : u # t => tab'[u] = tab[u]
  BY <1>1 DEF TypeOK
<1>4. \A u \in Tab : sure'[u] /\ u # t => sure[u]
  BY <1>1 DEF TypeOK
<1>5. KindFits(n, tab'[t].pc) /\ SoundCall(n)'
  BY <1>1, <1>2, <1>3 DEF KindFits, SoundCall
<1>6. ASSUME NEW e \in calls', e.tab = t PROVE SoundCall(e)'
  BY <1>1, <1>5, <1>6 DEF Quiet
<1>7. SoundAt(t)'
  BY <1>3, <1>6 DEF SoundAt
<1> QED
  BY <1>1, <1>2, <1>3, <1>4, <1>5, <1>7, AskKept DEF Quiet

LEMMA SignOutKept ==
  ASSUME TypeOK, Core, Kept, NEW t \in Tab, sign_out(t)
  PROVE  Kept'
<1>a. PICK n : n = InFlight(t, "logout", [sets |-> "clear", who |-> Nobody])
  OBVIOUS
<1>1. /\ calls' = calls \union {n} /\ UNCHANGED <<jar, users, tab, sure>>
      /\ \A d \in calls : d.tab = t => d.kind \in {"refresh", "me"}
      /\ tab[t].pc \in (IF t \in Manager THEN {"refresh", "me", "ready"} ELSE {"ready"})
  BY <1>a DEF sign_out
<1>2. n.tab = t /\ n.kind = "logout" /\ n.exp > 0 /\ n.sets = "clear"
  BY <1>a, InFlightFields
<1>3. KindFits(n, tab[t].pc)
  BY <1>1, <1>2 DEF KindFits
<1>4. ASSUME NEW d \in calls, d.tab = t PROVE Together(n, d)
  <2>1. KindFits(d, tab[t].pc) /\ d.kind \in {"refresh", "me"}
    BY <1>1, <1>4 DEF Kept, Fits
  <2>2. tab[t].pc # "ready" \/ t \in Manager
    BY <2>1 DEF KindFits
  <2> QED
    BY <1>1, <1>2, <2>1, <2>2 DEF Together
<1>5. ASSUME sure'[t] PROVE SoundAt(t)'
  <2>1. SoundAt(t)
    BY <1>1, <1>5 DEF Kept, Sound
  <2>2. ASSUME NEW e \in calls', e.tab = t PROVE SoundCall(e)'
    <3>1. CASE e = n
      BY <1>2, <3>1 DEF SoundCall
    <3>2. CASE e \in calls
      BY <1>1, <2>1, <2>2, <3>2 DEF SoundAt, SoundCall
    <3> QED
      BY <1>1, <3>1, <3>2
  <2> QED
    BY <1>1, <2>1, <2>2 DEF SoundAt
<1> QED
  BY <1>1, <1>2, <1>3, <1>4, <1>5, AskKept

LEMMA LoginKept ==
  ASSUME TypeOK, Core, Kept, NEW t \in Tab, NEW u \in User, osm_login(t, u)
  PROVE  Kept'
<1>a. PICK n : n = InFlight(t, "callback", [sets |-> "login", who |-> u])
  OBVIOUS
<1>1. /\ calls' = calls \union {n} /\ UNCHANGED <<jar, users>> /\ Quiet(t)
      /\ tab' = [tab EXCEPT ![t] = [pc |-> "callback", shown |-> kept]]
      /\ sure' = [sure EXCEPT ![t] = TRUE]
  BY <1>a DEF osm_login
<1>2. n.tab = t /\ n.kind = "callback" /\ n.exp > 0 /\ n.sets = "login"
  BY <1>a, InFlightFields
<1>3. tab'[t].pc = "callback" /\ \A s \in Tab : s # t => tab'[s] = tab[s]
  BY <1>1 DEF TypeOK
<1>4. \A s \in Tab : sure'[s] /\ s # t => sure[s]
  BY <1>1 DEF TypeOK
<1>5. KindFits(n, tab'[t].pc) /\ SoundCall(n)'
  BY <1>2, <1>3 DEF KindFits, SoundCall
<1>6. ASSUME NEW e \in calls', e.tab = t PROVE SoundCall(e)'
  BY <1>1, <1>5, <1>6 DEF Quiet
<1>7. SoundAt(t)'
  BY <1>3, <1>6 DEF SoundAt
<1> QED
  BY <1>1, <1>2, <1>3, <1>4, <1>5, <1>7, AskKept DEF Quiet

\* A step that leaves the tabs and the calls, and nobody's session changes who stays sure.
LEMMA CalmKept ==
  ASSUME Core, Kept, tab' = tab,
         \A e \in calls' : \E d \in calls : Same(d, e) /\ e.exp > 0,
         \A e, f \in calls' : \E d, g \in calls : Same(d, e) /\ Same(g, f) /\ (d = g => e = f),
         \A t \in Tab : sure'[t] => sure[t] /\ Calm
  PROVE  Kept'
<1>1. Fits'
  <2>1. ASSUME NEW e \in calls' PROVE KindFits(e, tab[e.tab].pc) /\ e.exp > 0
    <3>1. PICK d \in calls : Same(d, e) /\ e.exp > 0
      OBVIOUS
    <3>2. KindFits(d, tab[d.tab].pc)
      BY DEF Kept, Fits
    <3> QED
      BY <3>1, <3>2 DEF Same, KindFits
  <2> QED
    BY <2>1 DEF Fits
<1>2. OneCall'
  <2>1. ASSUME NEW e \in calls', NEW f \in calls', e.tab = f.tab PROVE e = f \/ Together(e, f)
    <3>1. PICK d \in calls, g \in calls : Same(d, e) /\ Same(g, f) /\ (d = g => e = f)
      OBVIOUS
    <3>2. d = g \/ Together(d, g)
      BY <2>1, <3>1 DEF Kept, OneCall, Same
    <3> QED
      BY <3>1, <3>2 DEF Same, Together
  <2> QED
    BY <2>1 DEF OneCall
<1>3. ASSUME NEW t \in Tab, sure'[t] PROVE SoundAt(t)'
  <2>1. sure[t] /\ Calm
    BY <1>3
  <2>2. SoundAt(t)
    BY <2>1 DEF Kept, Sound
  <2>3. \A e \in calls' : e.tab = t => \E d \in calls : Same(d, e)
    OBVIOUS
  <2> QED
    BY <2>1, <2>2, <2>3, StaysSound
<1> QED
  BY <1>1, <1>2, <1>3 DEF Kept, Sound

LEMMA TickKept ==
  ASSUME Core, Kept, tick
  PROVE  Kept'
<1>0. JarOK(jar) /\ \A d \in calls : d \in Call /\ d.exp \in 0..Day
  BY DEF Core, CallOK, Call
<1>1. /\ jar' = [jar EXCEPT !.main = aged(jar.main), !.temp = aged(jar.temp),
                            !.refresh = aged(jar.refresh)]
      /\ calls' = {[c EXCEPT !.exp = @ - 1] : c \in calls}
      /\ \A c \in calls : c.exp > 1
      /\ UNCHANGED <<users, tab>>
      /\ sure' = [t \in Tab |-> sure[t] /\ login_required(jar') = login_required(jar)
                                      /\ mapper_login_required(jar') = mapper_login_required(jar)]
  BY DEF tick
<1> DEFINE older(d) == [d EXCEPT !.exp = @ - 1]
<1>2. ASSUME NEW d \in calls PROVE Same(d, older(d)) /\ older(d).exp > 0
  <2>1. d \in Call /\ d.exp \in 0..Day /\ d.exp > 1
    BY <1>0, <1>1
  <2>2. older(d).exp = d.exp - 1 /\ Same(d, older(d))
    BY <2>1 DEF Call, Same
  <2> QED
    BY <2>1, <2>2, SessionsAssumption
<1>3. \A e \in calls' : \E d \in calls : e = older(d)
  BY <1>1
<1> HIDE DEF older
<1>4. \A e \in calls' : \E d \in calls : Same(d, e) /\ e.exp > 0
  BY <1>2, <1>3
<1>5. \A e, f \in calls' : \E d, g \in calls : Same(d, e) /\ Same(g, f) /\ (d = g => e = f)
  BY <1>2, <1>3
<1>6. jar.main = None => jar'.main = None
  BY <1>0, <1>1, Aging
<1>7. ASSUME NEW t \in Tab, sure'[t]
      PROVE  /\ sure[t] /\ login_required(jar') = login_required(jar)
             /\ mapper_login_required(jar') = mapper_login_required(jar)
  BY <1>1, <1>7
<1>8. \A t \in Tab : sure'[t] => sure[t] /\ Calm
  BY <1>1, <1>6, <1>7 DEF Calm
<1> QED
  BY <1>1, <1>4, <1>5, <1>8, CalmKept

LEMMA KeptStep ==
  ASSUME TypeOK, Core, Kept, [Next]_vars
  PROVE  Kept'
<1>1. ASSUME NEW t \in Tab, load_page(t) \/ sign_out(t) \/ \E u \in User : osm_login(t, u)
      PROVE  Kept'
  BY <1>1, LoadKept, SignOutKept, LoginKept
<1>2. ASSUME NEW c \in calls, receive(c) PROVE Kept'
  BY <1>2, RefreshReceived, MeReceived, LogoutReceived, TempReceived, CallbackReceived DEF receive
<1>3. ASSUME NEW c \in calls, lose(c) PROVE Kept'
  BY <1>3, AnswerLost
<1>4. CASE tick
  BY <1>4, TickKept
<1>a. \A d \in calls : d.exp > 0
  BY DEF Kept, Fits
<1>b. ASSUME calls' = calls, tab' = tab, \A t \in Tab : sure'[t] => sure[t] /\ Calm
      PROVE  Kept'
  BY <1>a, <1>b, CalmKept DEF Same
<1>5. CASE osm_token_expires
  <2>1. jar'.main = jar.main /\ jar'.temp = jar.temp
    BY <1>5 DEF osm_token_expires, Core, JarOK, Jar
  <2>2. UNCHANGED <<users, tab, calls, sure>>
    BY <1>5 DEF osm_token_expires
  <2>3. Calm
    BY <2>1, <2>2 DEF Calm, login_required, mapper_login_required
  <2> QED
    BY <1>b, <2>2, <2>3
<1>6. ASSUME NEW u \in User, delete_user(u) PROVE Kept'
  <2>1. UNCHANGED <<jar, tab, calls>> /\ users' = users \ {u}
    BY <1>6 DEF delete_user
  <2>2. ASSUME NEW t \in Tab, sure'[t] PROVE sure[t] /\ login_required(jar) # u
    BY <1>6, <2>2 DEF delete_user
  <2>3. \A t \in Tab : sure'[t] => sure[t] /\ Calm
    BY <2>1, <2>2 DEF Calm
  <2> QED
    BY <1>b, <2>1, <2>3
<1>7. CASE UNCHANGED vars
  <2>1. UNCHANGED <<jar, users, tab, calls, sure>>
    BY <1>7 DEF vars
  <2> QED
    BY <1>b, <2>1 DEF Calm
<1> QED
  BY <1>1, <1>2, <1>3, <1>4, <1>5, <1>6, <1>7 DEF Next

-----------------------------------------------------------------------------
(* Type correctness, and the theorem. *)

TabsOK ==
  /\ tab \in [Tab -> [pc : {"closed", "refresh", "me", "ready", "callback", "error"},
                      shown : Person]]
  /\ kept \in Person
  /\ sure \in [Tab -> BOOLEAN]

LEMMA TypeParts == Core /\ TabsOK => TypeOK
BY DEF Core, TabsOK, TypeOK, JarOK, CallOK, Person

LEMMA ShowsTyped ==
  ASSUME TabsOK, NEW t \in Tab, NEW u \in Person,
         NEW pc \in {"closed", "refresh", "me", "ready", "callback", "error"}, Shows(t, u, pc)
  PROVE  /\ tab' \in [Tab -> [pc : {"closed", "refresh", "me", "ready", "callback", "error"},
                              shown : Person]]
         /\ kept' \in Person
BY DEF TabsOK, Shows

LEMMA MovesTyped ==
  ASSUME TabsOK, NEW t \in Tab,
         NEW pc \in {"closed", "refresh", "me", "ready", "callback", "error"},
         tab' = [tab EXCEPT ![t].pc = pc]
  PROVE  tab' \in [Tab -> [pc : {"closed", "refresh", "me", "ready", "callback", "error"},
                           shown : Person]]
BY DEF TabsOK

LEMMA UnsettlesTyped ==
  ASSUME NEW c, Unsettles(c)
  PROVE  sure' \in [Tab -> BOOLEAN]
<1>1. \A t \in Tab : ( /\ sure[t]
                       /\ t = c.tab \/ login_required(jar') = login_required(jar)
                       /\ ~(c.kind = "logout" /\ \E d \in calls : d.tab = c.tab /\ t = c.tab /\ d.kind = "me") )
                    \in BOOLEAN
  OBVIOUS
<1> QED
  BY <1>1, Zenon DEF Unsettles

LEMMA FailureTyped ==
  ASSUME TabsOK, NEW c, c.tab \in Tab, me_fails(c)
  PROVE  TabsOK'
<1>1. CASE c.tab \in Manager
  <2>1. /\ tab' = [tab EXCEPT ![c.tab].pc = "ready"] /\ kept' = kept
        /\ sure' = [sure EXCEPT ![c.tab] = FALSE]
    BY <1>1 DEF me_fails
  <2>2. sure' \in [Tab -> BOOLEAN]
    BY <2>1 DEF TabsOK
  <2> QED
    BY <2>1, <2>2, MovesTyped DEF TabsOK
<1>2. CASE c.tab \notin Manager
  <2>1. Shows(c.tab, Nobody, "error") /\ sure' = sure
    BY <1>2 DEF me_fails, signs_out
  <2> QED
    BY <2>1, ShowsTyped DEF TabsOK, Person
<1> QED
  BY <1>1, <1>2

LEMMA ReceiptTyped ==
  ASSUME Core, TabsOK, NEW c \in calls, receive(c)
  PROVE  TabsOK'
<1>0. c.tab \in Tab /\ CallOK(c) /\ tab[c.tab].pc \in {"closed", "refresh", "me", "ready", "callback", "error"}
  BY DEF Core, CallOK, Call, TabsOK
<1>1. CASE receive_refresh(c)
  <2>1. /\ Unsettles(c)
        /\ \/ tab' = [tab EXCEPT ![c.tab].pc = "me"] /\ kept' = kept
           \/ Shows(c.tab, Nobody, "ready")
    BY <1>1 DEF receive_refresh
  <2> QED
    BY <1>0, <2>1, UnsettlesTyped, MovesTyped, ShowsTyped DEF TabsOK, Person
<1>2. CASE receive_me(c)
  <2>1. c.kind = "me" /\ (me_fails(c) \/ (Shows(c.tab, c.who, "ready") /\ sure' = sure))
    BY <1>2 DEF receive_me
  <2>2. c.who \in Person
    BY <1>0, <2>1 DEF CallOK
  <2> QED
    BY <1>0, <2>1, <2>2, FailureTyped, ShowsTyped DEF TabsOK
<1>3. CASE receive_logout(c)
  <2>1. Unsettles(c) /\ Shows(c.tab, Nobody, tab[c.tab].pc)
    BY <1>3 DEF receive_logout, signs_out
  <2> QED
    BY <1>0, <2>1, UnsettlesTyped, ShowsTyped DEF TabsOK, Person
<1>4. CASE receive_temp(c)
  <2>1. Unsettles(c) /\ tab' = tab /\ kept' = kept
    BY <1>4 DEF receive_temp
  <2> QED
    BY <2>1, UnsettlesTyped DEF TabsOK
<1>5. CASE receive_callback(c)
  <2>1. /\ Unsettles(c) /\ kept' = kept
        /\ \/ tab' = [tab EXCEPT ![c.tab].pc = "me"]
           \/ tab' = [tab EXCEPT ![c.tab] = [pc |-> "refresh", shown |-> Nobody]]
    BY <1>5 DEF receive_callback
  <2>2. tab' \in [Tab -> [pc : {"closed", "refresh", "me", "ready", "callback", "error"},
                          shown : Person]]
    BY <1>0, <2>1, MovesTyped DEF TabsOK, Person
  <2> QED
    BY <2>1, <2>2, UnsettlesTyped DEF TabsOK
<1> QED
  BY <1>1, <1>2, <1>3, <1>4, <1>5 DEF receive

LEMMA LossTyped ==
  ASSUME Core, TabsOK, NEW c \in calls, lose(c)
  PROVE  TabsOK'
<1>0. /\ c.tab \in Tab /\ (c.tab \in Manager \/ c.tab \in Mapper)
      /\ c.kind \in {"refresh", "me", "logout", "temp", "callback"}
      /\ c.tab \in Manager => c.tab \notin Mapper
  BY SessionsAssumption DEF Core, CallOK, Call, Tab
<1>1. CASE c.kind = "refresh" /\ c.tab \in Manager
  <2>1. Shows(c.tab, Nobody, "ready") /\ sure' = [sure EXCEPT ![c.tab] = FALSE]
    BY <1>0, <1>1 DEF lose
  <2>2. sure' \in [Tab -> BOOLEAN]
    BY <2>1 DEF TabsOK
  <2> QED
    BY <1>0, <2>1, <2>2, ShowsTyped DEF TabsOK, Person
<1>2. CASE c.kind = "refresh" /\ c.tab \notin Manager
  <2>1. tab' = [tab EXCEPT ![c.tab].pc = "me"] /\ kept' = kept /\ sure' = sure
    BY <1>0, <1>2 DEF lose
  <2> QED
    BY <1>0, <2>1, MovesTyped DEF TabsOK
<1>3. CASE c.kind = "me"
  <2>1. me_fails(c)
    BY <1>3 DEF lose
  <2> QED
    BY <1>0, <2>1, FailureTyped
<1>4. CASE c.kind = "callback"
  <2>1. tab' = [tab EXCEPT ![c.tab].pc = "error"] /\ kept' = kept /\ sure' = sure
    BY <1>4 DEF lose
  <2> QED
    BY <1>0, <2>1, MovesTyped DEF TabsOK
<1>5. CASE c.kind \in {"logout", "temp"}
  <2>1. UNCHANGED <<tab, kept, sure>>
    BY <1>5 DEF lose
  <2> QED
    BY <2>1 DEF TabsOK
<1> QED
  BY <1>0, <1>1, <1>2, <1>3, <1>4, <1>5

LEMMA TypedStep ==
  ASSUME Core, TabsOK, [Next]_vars
  PROVE  TabsOK'
<1>1. ASSUME NEW t \in Tab, load_page(t) PROVE TabsOK'
  BY <1>1 DEF load_page, TabsOK, Person
<1>2. ASSUME NEW t \in Tab, sign_out(t) PROVE TabsOK'
  BY <1>2 DEF sign_out, TabsOK
<1>3. ASSUME NEW t \in Tab, NEW u \in User, osm_login(t, u) PROVE TabsOK'
  BY <1>3 DEF osm_login, TabsOK
<1>4. ASSUME NEW c \in calls, receive(c) \/ lose(c) PROVE TabsOK'
  BY <1>4, ReceiptTyped, LossTyped
<1>5. CASE tick
  <2>1. \A t \in Tab : (/\ sure[t] /\ login_required(jar') = login_required(jar)
                       /\ mapper_login_required(jar') = mapper_login_required(jar)) \in BOOLEAN
    OBVIOUS
  <2>2. sure' \in [Tab -> BOOLEAN]
    BY <1>5, <2>1, Zenon DEF tick
  <2>3. UNCHANGED <<tab, kept>>
    BY <1>5 DEF tick
  <2> QED
    BY <2>2, <2>3 DEF TabsOK
<1>6. CASE osm_token_expires
  BY <1>6 DEF osm_token_expires, TabsOK
<1>7. ASSUME NEW u \in User, delete_user(u) PROVE TabsOK'
  <2>1. \A t \in Tab : (sure[t] /\ login_required(jar) # u) \in BOOLEAN
    OBVIOUS
  <2>2. sure' \in [Tab -> BOOLEAN]
    BY <1>7, <2>1, Zenon DEF delete_user
  <2>3. UNCHANGED <<tab, kept>>
    BY <1>7 DEF delete_user
  <2> QED
    BY <2>2, <2>3 DEF TabsOK
<1>8. CASE UNCHANGED vars
  BY <1>8 DEF vars, TabsOK
<1> QED
  BY <1>1, <1>2, <1>3, <1>4, <1>5, <1>6, <1>7, <1>8 DEF Next

LEMMA SessionStart == Init => Core /\ Session /\ TabsOK /\ Kept
<1> SUFFICES ASSUME Init PROVE Core /\ Session /\ TabsOK /\ Kept
  OBVIOUS
<1>1. Empty \in Jar /\ Covered(Empty)
  BY DEF Empty, Jar, Cookie, Covered
<1>2. jar.main = None /\ jar.osm = Nobody /\ JarOK(jar)
  BY <1>1 DEF Init, Empty, JarOK
<1>3. users = {} /\ calls = {} /\ signed = Nobody /\ crossed = FALSE
  BY DEF Init
<1>4. Core
  BY <1>2, <1>3 DEF Core, Person
<1>5. Session
  BY <1>2, <1>3 DEF Session
<1>6. TabsOK
  BY DEF Init, TabsOK, Person
<1>7. \A t \in Tab : ~sure[t]
  BY DEF Init
<1>8. Kept
  BY <1>3, <1>7 DEF Kept, Fits, OneCall, Sound
<1> QED
  BY <1>4, <1>5, <1>6, <1>8

\* Every variable keeps its type; the cookies and answers are ones the backend can make.
THEOREM SessionsTypeCorrect == Spec => []TypeOK
<1>1. Init => Core /\ Session /\ TabsOK
  BY SessionStart
<1>2. Core /\ Session /\ TabsOK /\ [Next]_vars => (Core /\ Session /\ TabsOK)'
  BY SessionStep, TypedStep
<1>3. Core /\ TabsOK => TypeOK
  BY TypeParts
<1> QED
  BY <1>1, <1>2, <1>3, PTL DEF Spec

\* A page that is loaded and that nothing has unsettled shows whom its requests are
\* attributed to, and a user who has a row, for any number of tabs and users.
THEOREM ShownActsHolds == Spec => []ShownActs
<1>1. Init => Core /\ Session /\ TabsOK /\ Kept
  BY SessionStart
<1>2. Core /\ Session /\ TabsOK /\ Kept /\ [Next]_vars => (Core /\ Session /\ TabsOK /\ Kept)'
  BY SessionStep, TypedStep, TypeParts, KeptStep
<1>3. Core /\ Kept => ShownActs
  <2> SUFFICES ASSUME Core, Kept, NEW t \in Tab, tab[t].pc = "ready", sure[t]
               PROVE  /\ acts_as(t) = IF t \in Mapper /\ tab[t].shown = Nobody
                                       THEN SvcUser ELSE tab[t].shown
                      /\ tab[t].shown \in users \union {Nobody}
    BY DEF ShownActs
  <2>1. /\ login_required(jar) = tab[t].shown /\ tab[t].shown \in users \union {Nobody}
        /\ t \in Mapper /\ tab[t].shown = Nobody => mapper_login_required(jar) = SvcUser
    BY DEF Kept, Sound, SoundAt
  <2>2. CASE t \in Manager
    BY <2>1, <2>2, SessionsAssumption DEF acts_as
  <2>3. CASE t \notin Manager
    <3>1. tab[t].shown # Nobody => mapper_login_required(jar) = tab[t].shown
      BY <2>1, LoggedInMain DEF Core
    <3> QED
      BY <2>1, <2>3, <3>1 DEF acts_as, Tab
  <2> QED
    BY <2>2, <2>3
<1> QED
  BY <1>1, <1>2, <1>3, PTL DEF Spec
=============================================================================

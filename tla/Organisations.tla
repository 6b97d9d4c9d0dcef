--------------------------- MODULE Organisations ---------------------------
(***************************************************************************)
(* Organisations, their managers and their logos, together with the        *)
(* accounts the managers have: accounts come and go with logins and with   *)
(* the job of InactiveUsers, whose steps are steps of this module; what    *)
(* an account leaves behind in organisation_managers goes with it.         *)
(*                                                                         *)
(* A request is one transaction, but not one moment: between the check of  *)
(* what it may do and its statement, and between its statement and the     *)
(* COMMIT, it talks to S3 and others go on.  A manager may do here what an *)
(* administrator may do to any organisation (Roles), so that who asks is   *)
(* left out.  The projects of an organisation are left out as well: they   *)
(* matter as a reason for a DELETE to fail.                                *)
(***************************************************************************)
EXTENDS InactiveUsers, FiniteSets

CONSTANTS
    MaxOrgs,        \* bound: ids drawn
    Name, HOTOSM,   \* names, the one of the organisation made at startup among them
    LocalAdmin,     \* user localadmin, made at startup
    Change,         \* the updates that are asked for
    None,           \* no such row, nothing to change
    MaxRequests     \* bound: updates, and deletions, in flight

Row == [name : Name, approved : BOOLEAN, created_by : User, logo : BOOLEAN]

ASSUME OrganisationsAssumption ==
  /\ MaxOrgs \in Nat /\ MaxRequests \in Nat
  /\ HOTOSM \in Name /\ LocalAdmin \in User
  /\ None \notin Name \union User \union Row
  /\ Change \subseteq [name : Name \union {None}, created_by : User \union {None}, logo : BOOLEAN]

VARIABLES
    organisations,          \* rows
    organisation_managers,  \* pairs of an organisation and a user
    nextval,                \* ids drawn from organisations_id_seq
    logos,                  \* the organisations that have an object in S3
    requests,               \* requests between two of their steps
    orphaned,               \* history: organisations whose last manager went with an account
    lost                    \* history: organisations a deletion emptied and did not delete

orgVars == <<organisations, organisation_managers, nextval, logos, requests, orphaned, lost>>

-----------------------------------------------------------------------------
Org == 1..MaxOrgs

Request == [kind : {"update"}, org : Org, change : Change, step : {"checked", "uploaded"}]
             \union [kind : {"delete"}, org : Org, step : {"deleted", "emptied"}]

OrgTypeOK ==
  /\ TypeOK
  /\ organisations \in [Org -> Row \union {None}]
  /\ organisation_managers \subseteq Org \X User
  /\ nextval \in 0..MaxOrgs
  /\ logos \subseteq Org
  /\ requests \subseteq Request
  /\ orphaned \subseteq Org /\ lost \subseteq Org

OrgInit ==
  /\ Init
  /\ organisations = [o \in Org |-> None]
  /\ organisation_managers = {} /\ nextval = 0 /\ logos = {} /\ requests = {}
  /\ orphaned = {} /\ lost = {}

ManagersOf(o) == {m \in organisation_managers : m[1] = o}

NameFree(n) == \A o \in Org : organisations[o] # None => organisations[o].name # n

\* The DELETE of a deletion holds the row until its transaction ends.
Locked(o) == \E q \in requests : q.kind = "delete" /\ q.org = o

-----------------------------------------------------------------------------
(* Requests of one statement, or whose steps nobody else can see. *)

\* POST /organisation: the row is not seen before its logo has been uploaded and written to it.
\* One that fails leaves an id, and perhaps an object, that no row will refer to.
create_organisation(u, n, logo) ==
  LET o == nextval + 1 IN
  /\ o \in Org /\ NameFree(n)
  /\ nextval' = o
  /\ logos' = IF logo THEN logos \union {o} ELSE logos
  /\ organisations' = [organisations EXCEPT ![o] =
       [name |-> n, approved |-> FALSE, created_by |-> u, logo |-> logo]]
  /\ UNCHANGED <<organisation_managers, requests, orphaned, lost, vars>>

\* Mutant of approve_organisation: the approval is committed, whatever becomes of the INSERT.
approve_organisation_commits(o) ==
  /\ organisations[o] # None /\ ~Locked(o)
  /\ organisations' = [organisations EXCEPT ![o].approved = TRUE]
  /\ organisation_managers' = organisation_managers
       \union ({o} \X ({organisations[o].created_by} \intersect users))
  /\ UNCHANGED <<nextval, logos, requests, orphaned, lost, vars>>

\* POST /organisation/approve: an UPDATE and an INSERT, which refers to the account.
approve_organisation(o) ==
  /\ organisations[o] # None /\ ~Locked(o)
  /\ organisations[o].created_by \in users
  /\ organisations' = [organisations EXCEPT ![o].approved = TRUE]
  /\ organisation_managers' = organisation_managers \union {<<o, organisations[o].created_by>>}
  /\ UNCHANGED <<nextval, logos, requests, orphaned, lost, vars>>

\* At startup: the account and the organisation are made if they are missing, but the account
\* is made manager of the organisation only together with it.
init_admin_org ==
  LET o == nextval + 1 IN
  /\ IF LocalAdmin \in users THEN UNCHANGED vars ELSE login(LocalAdmin)
  /\ \/ /\ o \in Org /\ NameFree(HOTOSM)
        /\ nextval' = o /\ logos' = logos \union {o}
        /\ organisations' = [organisations EXCEPT ![o] =
             [name |-> HOTOSM, approved |-> TRUE, created_by |-> LocalAdmin, logo |-> TRUE]]
        /\ organisation_managers' = organisation_managers \union {<<o, LocalAdmin>>}
     \/ /\ \E p \in Org : /\ organisations[p] # None /\ organisations[p].name = HOTOSM
                          /\ ~Locked(p)
        /\ UNCHANGED <<nextval, logos, organisations, organisation_managers>>
  /\ UNCHANGED <<requests, orphaned, lost>>

-----------------------------------------------------------------------------
(* The other requests. *)

\* get_organisation refuses an organisation that is not approved.  It is asked before the
\* statement, which may have to wait; meanwhile an approval stays and only the row may go.
get_organisation(o) == organisations[o] # None /\ organisations[o].approved

Begins(q) ==
  /\ Cardinality({p \in requests : p.kind = q.kind}) < MaxRequests
  /\ requests' = requests \union {q}

GoesOn(q, step) == requests' = (requests \ {q}) \union {[q EXCEPT !.step = step]}

Ends(q) == requests' = requests \ {q}

\* POST /organisation/new-admin: the INSERT refers to the organisation and to the account.
add_new_organisation_admin(o, u) ==
  /\ get_organisation(o) /\ ~Locked(o) /\ u \in users
  /\ organisation_managers' = organisation_managers \union {<<o, u>>}
  /\ UNCHANGED <<organisations, nextval, logos, requests, orphaned, lost, vars>>

Changed(row, c) ==
  [row EXCEPT !.name = IF c.name = None THEN @ ELSE c.name,
              !.created_by = IF c.created_by = None THEN @ ELSE c.created_by,
              !.logo = @ \/ c.logo]

\* The UPDATE, which fails when the row is gone or the name taken.
DbOrganisation_update(o, c) ==
  /\ organisations[o] # None /\ ~Locked(o)
  /\ c.name # None /\ c.name # organisations[o].name => NameFree(c.name)
  /\ organisations' = [organisations EXCEPT ![o] = Changed(@, c)]

\* PATCH /organisation/{org_id}
update_organisation(o, c) ==
  /\ get_organisation(o)
  /\ \/ /\ ~c.logo /\ DbOrganisation_update(o, c)
        /\ UNCHANGED requests
     \/ /\ c.logo /\ Begins([kind |-> "update", org |-> o, change |-> c, step |-> "checked"])
        /\ UNCHANGED organisations
  /\ UNCHANGED <<organisation_managers, nextval, logos, orphaned, lost, vars>>

upload_logo(q) ==
  /\ q.kind = "update" /\ q.step = "checked" /\ GoesOn(q, "uploaded")
  /\ logos' = logos \union {q.org}
  /\ UNCHANGED <<organisations, organisation_managers, nextval, orphaned, lost, vars>>

update_commit(q) ==
  /\ q.kind = "update" /\ q.step = "uploaded" /\ Ends(q)
  /\ DbOrganisation_update(q.org, q.change)
  /\ UNCHANGED <<organisation_managers, nextval, logos, orphaned, lost, vars>>

\* DbOrganisation.delete: the statement that deletes the row with its projects and managers.
DbOrganisation_delete(o) ==
  /\ organisations[o] # None /\ ~Locked(o)
  /\ Begins([kind |-> "delete", org |-> o, step |-> "deleted"])
  /\ UNCHANGED <<organisations, organisation_managers, nextval, logos, orphaned, lost, vars>>

\* DELETE /organisation/{org_id}
delete_org(o) == get_organisation(o) /\ DbOrganisation_delete(o)

\* DELETE /organisation/unapproved/{org_id}: whether it is approved is not looked at.
delete_unapproved_org(o) == DbOrganisation_delete(o)

\* Its objects in S3, which does not say so when it fails.
delete_all_objs_under_prefix(q) ==
  /\ q.kind = "delete" /\ q.step = "deleted" /\ GoesOn(q, "emptied")
  /\ logos' \in {logos, logos \ {q.org}}
  /\ UNCHANGED <<organisations, organisation_managers, nextval, orphaned, lost, vars>>

delete_commit(q) ==
  /\ q.kind = "delete" /\ q.step = "emptied" /\ Ends(q)
  /\ organisations' = [organisations EXCEPT ![q.org] = None]
  /\ organisation_managers' = organisation_managers \ ManagersOf(q.org)
  /\ orphaned' = orphaned \ {q.org} /\ lost' = lost \ {q.org}
  /\ UNCHANGED <<nextval, logos, vars>>

\* Mutant of request_fails: S3 is tidied up after an upload that came to nothing.
request_fails_tidy(q) ==
  /\ Ends(q)
  /\ lost' = IF q.kind = "delete" /\ q.step = "emptied" THEN lost \union {q.org} ELSE lost
  /\ logos' = IF q.kind = "update" /\ q.step = "uploaded" THEN logos \ {q.org} ELSE logos
  /\ UNCHANGED <<organisations, organisation_managers, nextval, orphaned, vars>>

\* Any error: the row is gone, the name is taken, the account is gone, a project role refers to
\* a project of the organisation, the connection or the process ends.  S3 is not rolled back.
request_fails(q) ==
  /\ Ends(q)
  /\ lost' = IF q.kind = "delete" /\ q.step = "emptied" THEN lost \union {q.org} ELSE lost
  /\ UNCHANGED <<organisations, organisation_managers, nextval, logos, orphaned, vars>>

-----------------------------------------------------------------------------
\* Mutant of DbUser_delete: the managers are not deleted with the accounts.
DbUser_delete_kept == organisation_managers

\* Deleting accounts deletes what they manage.
DbUser_delete == {m \in organisation_managers : m[2] \in users'}

\* Logins, deletions of accounts and the job.
accounts ==
  /\ Next
  /\ organisation_managers' = DbUser_delete
  /\ orphaned' = orphaned \union {o \in Org : /\ ManagersOf(o) # {}
                                            /\ \A m \in ManagersOf(o) : m[2] \notin users'}
  /\ UNCHANGED <<organisations, nextval, logos, requests, lost>>

OrgNext ==
  \/ accounts
  \/ init_admin_org
  \/ \E u \in User, n \in Name, logo \in BOOLEAN : create_organisation(u, n, logo)
  \/ \E o \in Org :
       \/ approve_organisation(o) \/ delete_org(o) \/ delete_unapproved_org(o)
       \/ \E u \in User : add_new_organisation_admin(o, u)
       \/ \E c \in Change : update_organisation(o, c)
  \/ \E q \in requests :
       \/ upload_logo(q) \/ update_commit(q) \/ request_fails(q)
       \/ delete_all_objs_under_prefix(q) \/ delete_commit(q)

OrgSpec == OrgInit /\ [][OrgNext]_<<vars, orgVars>>

-----------------------------------------------------------------------------
(* Properties. *)

\* Whoever manages an organisation has an account and the organisation exists and is approved;
\* and an approved organisation has a manager, unless its last one went with an account: an approval is
\* refused when the account that asked for it is gone, and a restart makes both or neither.
ManagersSound ==
  /\ \A m \in organisation_managers :
       m[2] \in users /\ organisations[m[1]] # None /\ organisations[m[1]].approved
  /\ \A o \in Org : organisations[o] # None /\ organisations[o].approved /\ ManagersOf(o) = {}
       => o \in orphaned

\* The logo a row names is in S3, whatever uploads, updates and deletions overlap, unless the
\* organisation is being deleted or a deletion failed after it had emptied the folder.
LogoKept ==
  \A o \in Org : organisations[o] # None /\ organisations[o].logo
    => o \in logos \/ o \in lost \/ Locked(o)

OrgSound == ManagersSound /\ LogoKept
=============================================================================

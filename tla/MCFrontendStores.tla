-------------------------- MODULE MCFrontendStores --------------------------
(***************************************************************************)
(* The instance of the smaller stores of the frontends for TLC: the task   *)
(* store of the mapper frontend, and what the management frontend keeps    *)
(* for organisations, for the page that edits a project, for the table of  *)
(* users and for the panels of the project page.  They share nothing, so   *)
(* that a behaviour concerns one of them.                                  *)
(***************************************************************************)
EXTENDS MapperStore, OrganisationPages, ManageProject, ManageUsers, ProjectPanels

CONSTANTS t1, t2, b1, b2, o1, o2, p1, p2, k1, k2, u1, u2

VARIABLE part    \* whose behaviour it is

all == <<part, vars, orgPageVars, managePageVars, manageUsersVars, panelVars>>

MCInit ==
  /\ part \in {"tasks", "organisations", "project", "users", "panels"}
  /\ Init /\ OrgPagesInit /\ ManageInit /\ UsersInit /\ PanelsInit
  /\ part # "organisations" => role = "MAPPER" /\ manages = {}
  /\ part # "users" => roles = [a \in Account |-> "MAPPER"]

MCNext ==
  /\ part' = part
  /\ \/ /\ part = "tasks" /\ Next
        /\ UNCHANGED <<orgPageVars, managePageVars, manageUsersVars, panelVars>>
     \/ /\ part = "organisations" /\ OrgPagesNext
        /\ UNCHANGED <<vars, managePageVars, manageUsersVars, panelVars>>
     \/ /\ part = "project" /\ ManageNext
        /\ UNCHANGED <<vars, orgPageVars, manageUsersVars, panelVars>>
     \/ /\ part = "users" /\ UsersNext
        /\ UNCHANGED <<vars, orgPageVars, managePageVars, panelVars>>
     \/ /\ part = "panels" /\ PanelsNext
        /\ UNCHANGED <<vars, orgPageVars, managePageVars, manageUsersVars>>

MCSpec == MCInit /\ [][MCNext]_all

\* The type invariants of the parts.
StoresTypeOK ==
  /\ TypeOK /\ OrgPagesTypeOK /\ ManageTypeOK /\ ManageUsersTypeOK /\ PanelsTypeOK

Sym == Permutations({t1, t2}) \union Permutations({b1, b2}) \union Permutations({o1, o2})

\* A text that finds one of two users.
OneOrBoth == [x \in {"", "t"} |-> IF x = "t" THEN <<u2>> ELSE <<u1, u2>>]

\* A project each.
OneEach == [k \in {k1, k2} |-> IF k = k1 THEN p1 ELSE p2]
=============================================================================

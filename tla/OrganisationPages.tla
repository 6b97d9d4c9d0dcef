------------------------- MODULE OrganisationPages -------------------------
(***************************************************************************)
(* The pages of the management frontend for organisations, in one tab: the *)
(* list, the form that asks for a new one or edits one, and the page on    *)
(* which an administrator verifies or rejects one.                         *)
(*                                                                         *)
(* They share the slice "organisation": details, lists, flags and the      *)
(* signals of success that send the user back to the list.  Navigation     *)
(* within the frontend keeps it, and a request goes on when the page that  *)
(* sent it is left; its answer changes the slice when it comes.            *)
(***************************************************************************)
EXTENDS Naturals

CONSTANTS
    Org, NoOrg,       \* organisations.id; NoOrg is the empty object {}
    MaxRequests       \* bound: requests the user causes

VARIABLES
    route,            \* the page that is shown, and the id in its address
    role, manages,    \* of the user: authDetails.role, authDetails.orgs_managed
    verifiedTab,      \* the list of the verified ones; state of the page of the list
    activeTab, myOrgsLoaded,
    organisation,     \* the slice
    consent, typed,   \* forms: every consent given; input that is not yet submitted
    asked,            \* requests without an answer
    number,           \* of requests so far
    opened,           \* history: number when the page was opened
    disturbed         \* history: details asked for by an earlier page have come since

orgPageVars == <<route, role, manages, verifiedTab, activeTab, myOrgsLoaded, organisation,
                 consent, typed, asked, number, opened, disturbed>>

-----------------------------------------------------------------------------
Route == [page : {"list", "new"}, org : {NoOrg}] \union [page : {"edit", "approve"}, org : Org]

ListOf == [page |-> "list", org |-> NoOrg]

Slice ==
  [organisationFormData : Org \union {NoOrg},        \* whose details
   organisationData : {"none", "approved", "unapproved"},
   organisationDataLoading : BOOLEAN,
   myOrganisationData : BOOLEAN, myOrganisationDataLoading : BOOLEAN,
   postOrganisationData : BOOLEAN, postOrganisationDataLoading : BOOLEAN,
   consentDetails : BOOLEAN, consentApproval : BOOLEAN,
   isSuccess : BOOLEAN, organizationApproving : BOOLEAN, organizationRejecting : BOOLEAN]

initialState ==
  [organisationFormData |-> NoOrg, organisationData |-> "none", organisationDataLoading |-> FALSE,
   myOrganisationData |-> FALSE, myOrganisationDataLoading |-> FALSE,
   postOrganisationData |-> FALSE, postOrganisationDataLoading |-> FALSE,
   consentDetails |-> FALSE, consentApproval |-> FALSE,
   isSuccess |-> FALSE, organizationApproving |-> FALSE, organizationRejecting |-> FALSE]

Kind == {"approved", "unapproved", "mine", "details", "create", "update", "approve", "reject"}

OrgRequest == [n : Nat, kind : Kind, org : Org \union {NoOrg}]

OrgPagesTypeOK ==
  /\ route \in Route
  /\ role \in {"ADMIN", "MAPPER"} /\ manages \subseteq Org
  /\ verifiedTab \in BOOLEAN /\ activeTab \in {0, 1} /\ myOrgsLoaded \in BOOLEAN
  /\ organisation \in Slice
  /\ consent \in BOOLEAN /\ typed \in BOOLEAN
  /\ asked \subseteq OrgRequest
  /\ number \in Nat /\ opened \in Nat
  /\ disturbed \in BOOLEAN

-----------------------------------------------------------------------------
(* Pages. *)

hasManagedAnyOrganization == role = "ADMIN" \/ manages # {}

\* The conditions under which a page is not NoAccessComponent.
accessible(r) ==
  CASE r.page = "list"    -> TRUE
    [] r.page = "new"     -> role = "ADMIN" \/ ~hasManagedAnyOrganization
    [] r.page = "edit"    -> role = "ADMIN" \/ r.org \in manages
    [] r.page = "approve" -> role = "ADMIN"

\* CreateEditOrganizationForm is mounted.
FormShown(r, s) == r.page = "edit" \/ (r.page = "new" /\ s.consentApproval)

\* The effects on postOrganisationData and on organizationApprovalSuccess fire.
Leaves(r, s) == \/ FormShown(r, s) /\ s.postOrganisationData
                \/ r.page = "approve" /\ s.isSuccess

redirected(r, s) ==
  IF r.page = "approve"
  THEN [s EXCEPT !.organisationFormData = NoOrg, !.isSuccess = FALSE]
  ELSE [s EXCEPT !.postOrganisationData = FALSE, !.organisationFormData = NoOrg,
                 !.consentDetails = FALSE, !.consentApproval = FALSE]

Asking(kind, o) == [n |-> number + 1, kind |-> kind, org |-> o]

\* The list is mounted: OrganisationDataService for the verified ones.
MountList(s, as) ==
  /\ route' = ListOf
  /\ verifiedTab' = TRUE /\ activeTab' = 0 /\ myOrgsLoaded' = FALSE
  /\ organisation' = [s EXCEPT !.organisationDataLoading = TRUE]
  /\ asked' = as \union {Asking("approved", NoOrg)}
  /\ number' = number + 1 /\ opened' = number /\ disturbed' = FALSE
  /\ typed' = FALSE /\ consent' = FALSE

\* The page r stays, or its effects lead to the list; as are the requests without an answer.
Show(r, s, as) ==
  IF Leaves(r, s)
  THEN MountList(redirected(r, s), as)
  ELSE /\ route' = r /\ organisation' = s /\ asked' = as
       /\ UNCHANGED <<verifiedTab, activeTab, myOrgsLoaded, number>>

\* Mutant of GetIndividualOrganization: it does not.
keeps_details(s) == s

\* GetIndividualOrganizationService empties the details before it asks for the new ones.
GetIndividualOrganization(s) == [s EXCEPT !.organisationFormData = NoOrg]

\* CreateEditOrganization clears the consents and the details.
cleared(s) == [s EXCEPT !.consentDetails = FALSE, !.consentApproval = FALSE,
                        !.organisationFormData = NoOrg]

\* A page with a form is mounted; its own effects run before those of the page around it,
\* so that a success left over leads away at once.  The request for the details goes on.
MountForm(r) ==
  LET details == r.page \in {"edit", "approve"}
      s == IF details THEN GetIndividualOrganization(organisation) ELSE organisation
      shown == IF r.page = "approve" THEN s ELSE cleared(s)
      as == IF details THEN asked \union {Asking("details", r.org)} ELSE asked IN
  /\ IF Leaves(r, [s EXCEPT !.consentApproval = FALSE])
     THEN /\ route' = ListOf
          /\ verifiedTab' = TRUE /\ activeTab' = 0 /\ myOrgsLoaded' = FALSE
          /\ organisation' = [redirected(r, shown) EXCEPT !.organisationDataLoading = TRUE]
          /\ asked' = as \union {[n |-> number + 2, kind |-> "approved", org |-> NoOrg]}
          /\ number' = number + 2 /\ opened' = number + 1
     ELSE /\ route' = r /\ organisation' = shown /\ asked' = as
          /\ number' = IF details THEN number + 1 ELSE number
          /\ opened' = number
          /\ UNCHANGED <<verifiedTab, activeTab, myOrgsLoaded>>
  /\ disturbed' = FALSE /\ typed' = FALSE /\ consent' = FALSE

-----------------------------------------------------------------------------
(* The user. *)

\* A link, a card of the list, the button that closes a page, the browser's history.
open_page(r) ==
  /\ number < MaxRequests
  /\ r # route /\ accessible(r)
  /\ IF r.page = "list" THEN MountList(organisation, asked) ELSE MountForm(r)
  /\ UNCHANGED <<role, manages>>

\* setVerifiedTab, for administrators: the effect asks for the other list.
setVerifiedTab(v) ==
  /\ number < MaxRequests
  /\ route.page = "list" /\ role = "ADMIN" /\ activeTab = 0 /\ v # verifiedTab
  /\ verifiedTab' = v
  /\ organisation' = [organisation EXCEPT !.organisationDataLoading = TRUE]
  /\ asked' = asked \union {Asking(IF v THEN "approved" ELSE "unapproved", NoOrg)}
  /\ number' = number + 1
  /\ UNCHANGED <<route, role, manages, activeTab, myOrgsLoaded, consent, typed, opened,
                 disturbed>>

\* loadMyOrganisations asks once per visit; the first tab asks for nothing.
loadMyOrganisations ==
  /\ number < MaxRequests
  /\ route.page = "list" /\ activeTab = 0
  /\ activeTab' = 1 /\ myOrgsLoaded' = TRUE
  /\ IF myOrgsLoaded
     THEN UNCHANGED <<organisation, asked, number>>
     ELSE /\ organisation' = [organisation EXCEPT !.myOrganisationDataLoading = TRUE]
          /\ asked' = asked \union {Asking("mine", NoOrg)} /\ number' = number + 1
  /\ UNCHANGED <<route, role, manages, verifiedTab, consent, typed, opened, disturbed>>

showAll ==
  /\ route.page = "list" /\ activeTab = 1 /\ activeTab' = 0
  /\ UNCHANGED <<route, role, manages, verifiedTab, myOrgsLoaded, organisation, consent, typed,
                 asked, number, opened, disturbed>>

\* ConsentDetailsForm: answers that ConsentDetailsValidation accepts.
give_consent ==
  /\ route.page = "new" /\ ~organisation.consentApproval /\ ~consent
  /\ consent' = TRUE
  /\ UNCHANGED <<route, role, manages, verifiedTab, activeTab, myOrgsLoaded, organisation, typed,
                 asked, number, opened, disturbed>>

\* Next: the form of the details is mounted, and its effects run.
submit_consent ==
  /\ route.page = "new" /\ ~organisation.consentApproval
  /\ consent \/ organisation.consentDetails
  /\ LET s == [organisation EXCEPT !.consentApproval = TRUE, !.consentDetails = TRUE] IN
     /\ Show(route, s, asked)
     /\ ~Leaves(route, s) => consent' = FALSE /\ UNCHANGED <<typed, opened, disturbed>>
  /\ UNCHANGED <<role, manages>>

Back ==
  /\ route.page = "new" /\ organisation.consentApproval
  /\ organisation' = [organisation EXCEPT !.consentApproval = FALSE]
  /\ typed' = FALSE /\ consent' = FALSE
  /\ UNCHANGED <<route, role, manages, verifiedTab, activeTab, myOrgsLoaded, asked, number, opened,
                 disturbed>>

\* A valid change: OrganizationDetailsValidation asks for a url and a type unless there is an id.
type_details ==
  /\ FormShown(route, organisation) /\ ~typed
  /\ route.page = "edit" => organisation.organisationFormData # NoOrg
  /\ typed' = TRUE
  /\ UNCHANGED <<route, role, manages, verifiedTab, activeTab, myOrgsLoaded, organisation, consent,
                 asked, number, opened, disturbed>>

\* Mutant of may_post: the button of the form stays enabled.
may_always_post(s) == TRUE

\* The button is disabled while it shows that it is loading.
may_post(s) == ~s.postOrganisationDataLoading

\* handleSubmit and submission: the input is gone from the form once it is sent.  An edit
\* without changes is sent as well: the empty credentials count as changes.
submission ==
  /\ number < MaxRequests
  /\ FormShown(route, organisation) /\ may_post(organisation)
  /\ IF route.page = "new" THEN typed ELSE organisation.organisationFormData # NoOrg
  /\ organisation' = [organisation EXCEPT !.postOrganisationDataLoading = TRUE]
  /\ asked' = asked \union {Asking(IF route.page = "new" THEN "create" ELSE "update", route.org)}
  /\ number' = number + 1
  /\ typed' = FALSE
  /\ UNCHANGED <<route, role, manages, verifiedTab, activeTab, myOrgsLoaded, consent, opened,
                 disturbed>>

\* Each of the two buttons is disabled while either request is under way.
may_decide(s) == ~s.organizationApproving /\ ~s.organizationRejecting

approveOrganization ==
  /\ number < MaxRequests
  /\ route.page = "approve" /\ may_decide(organisation)
  /\ organisation' = [organisation EXCEPT !.organizationApproving = TRUE]
  /\ asked' = asked \union {Asking("approve", route.org)} /\ number' = number + 1
  /\ UNCHANGED <<route, role, manages, verifiedTab, activeTab, myOrgsLoaded, consent, typed, opened,
                 disturbed>>

rejectOrganization ==
  /\ number < MaxRequests
  /\ route.page = "approve" /\ may_decide(organisation)
  /\ organisation' = [organisation EXCEPT !.organizationRejecting = TRUE]
  /\ asked' = asked \union {Asking("reject", route.org)} /\ number' = number + 1
  /\ UNCHANGED <<route, role, manages, verifiedTab, activeTab, myOrgsLoaded, consent, typed, opened,
                 disturbed>>

-----------------------------------------------------------------------------
(* Answers.  A refused or lost request clears its flag and leaves the rest. *)

Rest(a) == asked \ {a}

\* OrganisationDataService.
OrganisationDataService(a, ok) ==
  /\ a.kind \in {"approved", "unapproved"}
  /\ organisation' = [organisation EXCEPT !.organisationDataLoading = FALSE,
                        !.organisationData = IF ok THEN a.kind ELSE @]
  /\ asked' = Rest(a)
  /\ UNCHANGED <<route, role, manages, verifiedTab, activeTab, myOrgsLoaded, consent, typed, number,
                 opened, disturbed>>

MyOrganisationDataService(a, ok) ==
  /\ a.kind = "mine"
  /\ organisation' = [organisation EXCEPT !.myOrganisationDataLoading = FALSE,
                        !.myOrganisationData = @ \/ ok]
  /\ asked' = Rest(a)
  /\ UNCHANGED <<route, role, manages, verifiedTab, activeTab, myOrgsLoaded, consent, typed, number,
                 opened, disturbed>>

\* SetIndividualOrganization; useForm copies it into the form of the page, over what was typed.
SetIndividualOrganization(a, ok) ==
  /\ a.kind = "details"
  /\ asked' = Rest(a)
  /\ IF ok
     THEN /\ organisation' = [organisation EXCEPT !.organisationFormData = a.org]
          /\ typed' = FALSE
          /\ disturbed' = (disturbed \/ a.n <= opened)
     ELSE UNCHANGED <<organisation, typed, disturbed>>
  /\ UNCHANGED <<route, role, manages, verifiedTab, activeTab, myOrgsLoaded, consent, number,
                 opened>>

\* What a success does to the details is done to those of any page.
Emptied(s) == [s EXCEPT !.organisationFormData = NoOrg]

\* PostOrganisationDataService, PatchOrganizationDataService.
PostOrganisationDataService(a, ok) ==
  /\ a.kind \in {"create", "update"}
  /\ LET s == [organisation EXCEPT !.postOrganisationDataLoading = FALSE]
         t == IF ok THEN Emptied([s EXCEPT !.postOrganisationData = TRUE]) ELSE s IN
     /\ Show(route, t, Rest(a))
     /\ ~Leaves(route, t) => /\ typed' = (typed /\ ~ok)
                             /\ UNCHANGED <<consent, opened, disturbed>>
  /\ UNCHANGED <<role, manages>>

\* ApproveOrganizationService, RejectOrganizationService.
ApproveOrganizationService(a, ok) ==
  /\ a.kind \in {"approve", "reject"}
  /\ LET s == IF a.kind = "approve" THEN [organisation EXCEPT !.organizationApproving = FALSE]
              ELSE [organisation EXCEPT !.organizationRejecting = FALSE]
         t == IF ok THEN Emptied([s EXCEPT !.isSuccess = TRUE]) ELSE s IN
     /\ Show(route, t, Rest(a))
     /\ ~Leaves(route, t) => /\ typed' = (typed /\ ~ok)
                             /\ UNCHANGED <<consent, opened, disturbed>>
  /\ UNCHANGED <<role, manages>>

-----------------------------------------------------------------------------
\* A tab is opened at the list, by an administrator, the manager of an organisation or a mapper.
OrgPagesInit ==
  /\ route = ListOf
  /\ role \in {"ADMIN", "MAPPER"} /\ manages \in SUBSET Org
  /\ verifiedTab = TRUE /\ activeTab = 0 /\ myOrgsLoaded = FALSE
  /\ organisation = [initialState EXCEPT !.organisationDataLoading = TRUE]
  /\ consent = FALSE /\ typed = FALSE
  /\ asked = {[n |-> 1, kind |-> "approved", org |-> NoOrg]}
  /\ number = 1 /\ opened = 0 /\ disturbed = FALSE

answered_by(a, ok) ==
  \/ OrganisationDataService(a, ok) \/ MyOrganisationDataService(a, ok)
  \/ SetIndividualOrganization(a, ok)
  \/ PostOrganisationDataService(a, ok) \/ ApproveOrganizationService(a, ok)

OrgPagesNext ==
  \/ \E r \in Route : open_page(r)
  \/ \E v \in BOOLEAN : setVerifiedTab(v)
  \/ loadMyOrganisations \/ showAll
  \/ give_consent \/ submit_consent \/ Back
  \/ type_details \/ submission
  \/ approveOrganization \/ rejectOrganization
  \/ \E a \in asked, ok \in BOOLEAN : answered_by(a, ok)

OrgPagesSpec == OrgPagesInit /\ [][OrgPagesNext]_orgPageVars

-----------------------------------------------------------------------------
(* Properties. *)

\* The details a form shows, and for which a change or a decision is sent, are those of the
\* organisation in its address, unless details that an earlier page asked for came late.
DetailsFit ==
  route.page # "list" /\ ~disturbed =>
    organisation.organisationFormData \in {NoOrg, route.org}

\* At most one decision and one form are under way, whichever pages they were sent from: the
\* flags that disable the buttons outlive the pages.
OneDecision ==
  /\ \A a, b \in asked : {a.kind, b.kind} \subseteq {"approve", "reject"} => a = b
  /\ \A a, b \in asked : {a.kind, b.kind} \subseteq {"create", "update"} => a = b
=============================================================================

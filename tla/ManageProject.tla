--------------------------- MODULE ManageProject ---------------------------
(***************************************************************************)
(* The page of the management frontend on which a project is edited, given *)
(* a new form, or deleted.                                                 *)
(*                                                                         *)
(* The details of the project are one variable of the store, which the     *)
(* page neither empties when it is opened nor when its request fails: what *)
(* it shows may be those of another project.  The request that changes or  *)
(* deletes goes to the project in the address.                             *)
(***************************************************************************)
EXTENDS Naturals

CONSTANTS
    Managed, Unnamed,   \* projects, each with a name of its own; Unnamed has the empty name
    Instructed,           \* the projects that have instructions
    MaxAsks               \* bound: requests the user causes

ASSUME ManageAssumption == Unnamed \notin Managed /\ Instructed \subseteq Managed

VARIABLES
    project,              \* in the address; Unnamed on every other page
    tabView,              \* the tab of the page and, of EDIT, the tab within
    editProjectDetails,   \* of the store
    values,               \* of the form, useForm: a copy of the details with what was typed
    editor,               \* of the rich text editor: the projects its text stems from
    confirm,              \* of the dialog: open, the name typed, and whether that enables Confirm
    flags,                \* of the store: the buttons that show they are loading
    asks,                 \* requests without an answer
    count,                \* of requests so far
    arrival,              \* history: count when the page was opened for this project
    unsettled,            \* history: the details did not come, or an earlier page's came last
    inherited             \* history: whose text was in the editor when it was given this project,
                          \* or came for an earlier page

managePageVars == <<project, tabView, editProjectDetails, values, editor, confirm, flags, asks,
                    count, arrival, unsettled, inherited>>

-----------------------------------------------------------------------------
\* Name and form id of one project, instructions that may stem from several.
Details == [of : Managed \union {Unnamed}, per_task_instructions : SUBSET Managed]

NoDetails == [of |-> Unnamed, per_task_instructions |-> {}]

DetailsOf(p) == [of |-> p, per_task_instructions |-> {p} \intersect Instructed]

Tab == {"description", "form", "delete"}

Closed == [showModal |-> FALSE, name |-> Unnamed, enabled |-> FALSE]

\* of: whose name was typed, or whose form id is sent; from: whose instructions.
Ask == [n : Nat, kind : {"details", "patch", "form", "delete"}, project : Managed,
        of : Managed \union {Unnamed}, from : SUBSET Managed, unsettled : BOOLEAN,
        inherited : SUBSET Managed]

ManageTypeOK ==
  /\ project \in Managed \union {Unnamed} /\ tabView \in Tab
  /\ editProjectDetails \in Details
  /\ values \in [of : Managed \union {Unnamed}, per_task_instructions : SUBSET Managed,
                 typed : BOOLEAN]
  /\ editor \in SUBSET Managed
  /\ confirm \in [showModal : BOOLEAN, name : Managed \union {Unnamed}, enabled : BOOLEAN]
  /\ flags \in [editProjectDetailsLoading : BOOLEAN, formUpdateLoading : BOOLEAN]
  /\ asks \subseteq Ask
  /\ count \in Nat /\ arrival \in Nat
  /\ unsettled \in BOOLEAN /\ inherited \subseteq Managed

Copied(d) == [of |-> d.of, per_task_instructions |-> d.per_task_instructions, typed |-> FALSE]

Sent(kind, of, from) ==
  [n |-> count + 1, kind |-> kind, project |-> project, of |-> of, from |-> from,
   unsettled |-> unsettled \/ \E a \in asks : a.kind = "details" /\ a.n > arrival,
   inherited |-> inherited]

\* The form of the tab with the description is mounted with the details of the store.
MountDescription ==
  /\ values' = Copied(editProjectDetails)
  /\ editor' = editProjectDetails.per_task_instructions
  /\ inherited' = editor'

-----------------------------------------------------------------------------
(* Navigation. *)

\* Mutant of loads: the effect runs when the page is mounted, not when the address changes.
loads_once(p) == IF project = Unnamed
                 THEN {[n |-> count + 1, kind |-> "details", project |-> p, of |-> p,
                        from |-> {}, unsettled |-> FALSE, inherited |-> {}]}
                 ELSE {}

\* The effect on projectId.
loads(p) == {[n |-> count + 1, kind |-> "details", project |-> p, of |-> p,
              from |-> {}, unsettled |-> FALSE, inherited |-> {}]}

\* The button of the project page opens the page; the history of the browser may also
\* change the project under a page that stays mounted.
open_project(p) ==
  /\ count < MaxAsks
  /\ p # project
  /\ project' = p
  /\ asks' = asks \union loads(p) /\ count' = count + 1
  /\ arrival' = count /\ unsettled' = FALSE
  /\ IF project = Unnamed
     THEN tabView' = "description" /\ confirm' = Closed /\ MountDescription
     ELSE inherited' = editor /\ UNCHANGED <<tabView, confirm, values, editor>>
  /\ UNCHANGED <<editProjectDetails, flags>>

leave_project ==
  /\ project # Unnamed
  /\ project' = Unnamed
  /\ values' = Copied(NoDetails) /\ editor' = {} /\ inherited' = {} /\ confirm' = Closed
  /\ UNCHANGED <<tabView, editProjectDetails, flags, asks, count, arrival, unsettled>>

\* A tab that is left loses what was typed there.
setTabView(tab) ==
  /\ project # Unnamed /\ tab # tabView
  /\ tabView' = tab /\ confirm' = Closed
  /\ IF tab = "description"
     THEN MountDescription
     ELSE values' = Copied(NoDetails) /\ editor' = {} /\ inherited' = {}
  /\ UNCHANGED <<project, editProjectDetails, flags, asks, count, arrival, unsettled>>

-----------------------------------------------------------------------------
(* The tab with the description. *)

OnForm == project # Unnamed /\ tabView = "description"

\* Name, descriptions and hashtags.
handleChange ==
  /\ OnForm /\ ~values.typed
  /\ values' = [values EXCEPT !.typed = TRUE]
  /\ UNCHANGED <<project, tabView, editProjectDetails, editor, confirm, flags, asks, count,
                 arrival, unsettled, inherited>>

\* onUpdate of the editor: the whole of its text becomes the instructions.
edit_instructions(text) ==
  /\ OnForm
  /\ text \in {editor \union {project}, {}} /\ text # editor
  /\ editor' = text
  /\ values' = [values EXCEPT !.per_task_instructions = text]
  /\ UNCHANGED <<project, tabView, editProjectDetails, confirm, flags, asks, count, arrival,
                 unsettled, inherited>>

\* The form copies the details whenever they change, the editor while it is empty.
Synchronised(d) ==
  IF OnForm
  THEN /\ values' = Copied(d)
       /\ editor' = IF editor = {} THEN d.per_task_instructions ELSE editor
  ELSE UNCHANGED <<values, editor>>

\* submission: the details are changed in the store before the backend is asked; they stay
\* changed when it refuses.  EditProjectValidation asks for a name and descriptions.
submission_details ==
  /\ OnForm /\ ~flags.editProjectDetailsLoading
  /\ values.of # Unnamed \/ values.typed
  /\ LET d == [of |-> values.of, per_task_instructions |-> values.per_task_instructions]
         changed == values.typed \/ d # editProjectDetails
         from == IF d # editProjectDetails THEN d.per_task_instructions ELSE {} IN
     /\ editProjectDetails' = d
     /\ Synchronised(d)
     /\ IF changed
        THEN /\ count < MaxAsks
             /\ asks' = asks \union {Sent("patch", project, from)} /\ count' = count + 1
             /\ flags' = [flags EXCEPT !.editProjectDetailsLoading = TRUE]
        ELSE UNCHANGED <<asks, count, flags>>
  /\ UNCHANGED <<project, tabView, confirm, arrival, unsettled,
                 inherited>>

-----------------------------------------------------------------------------
(* The tabs with the form and with the deletion. *)

\* onSave of FormUpdateTab, with a file chosen: the form id is that of the details.
PostFormUpdate ==
  /\ project # Unnamed /\ tabView = "form" /\ ~flags.formUpdateLoading
  /\ count < MaxAsks
  /\ asks' = asks \union {Sent("form", editProjectDetails.of, {})} /\ count' = count + 1
  /\ flags' = [flags EXCEPT !.formUpdateLoading = TRUE]
  /\ UNCHANGED <<project, tabView, editProjectDetails, values, editor, confirm, arrival, unsettled,
                 inherited>>

\* DELETE PROJECT, and Escape, which leaves what was typed.
setShowModal(open) ==
  /\ project # Unnamed /\ tabView = "delete" /\ open # confirm.showModal
  /\ confirm' = [confirm EXCEPT !.showModal = open]
  /\ UNCHANGED <<project, tabView, editProjectDetails, values, editor, flags, asks, count, arrival,
                 unsettled, inherited>>

closeModal ==
  /\ confirm.showModal
  /\ confirm' = Closed
  /\ UNCHANGED <<project, tabView, editProjectDetails, values, editor, flags, asks, count, arrival,
                 unsettled, inherited>>

\* The button is enabled for the details there are now.
handleConfirmChange(name) ==
  /\ confirm.showModal
  /\ confirm' = [confirm EXCEPT !.name = name, !.enabled = (name = editProjectDetails.of)]
  /\ UNCHANGED <<project, tabView, editProjectDetails, values, editor, flags, asks, count, arrival,
                 unsettled, inherited>>

\* The name is compared again, with the details there are by then.
confirmed == confirm.enabled /\ confirm.name = editProjectDetails.of

onSave_delete ==
  /\ confirm.showModal /\ confirmed
  /\ count < MaxAsks
  /\ asks' = asks \union {Sent("delete", confirm.name, {})} /\ count' = count + 1
  /\ confirm' = [confirm EXCEPT !.showModal = FALSE]
  /\ UNCHANGED <<project, tabView, editProjectDetails, values, editor, flags, arrival, unsettled,
                 inherited>>

-----------------------------------------------------------------------------
(* Answers; a request may also fail. *)

GetIndividualProjectDetails(a, ok) ==
  /\ a.kind = "details"
  /\ LET d == DetailsOf(a.project) IN
     IF ok
     THEN editProjectDetails' = d /\ Synchronised(d)
     ELSE UNCHANGED <<editProjectDetails, values, editor>>
  /\ LET own == a.n = arrival + 1 IN
     /\ unsettled' = IF own THEN ~ok ELSE unsettled \/ ok
     /\ inherited' = IF own THEN inherited ELSE inherited \union {a.project}
  /\ UNCHANGED flags

\* What the server answers is kept where nothing reads it.
PatchProjectDetails(a) ==
  /\ a.kind = "patch"
  /\ flags' = [flags EXCEPT !.editProjectDetailsLoading = FALSE]
  /\ UNCHANGED <<editProjectDetails, values, editor, unsettled, inherited>>

FormUpdated(a) ==
  /\ a.kind = "form"
  /\ flags' = [flags EXCEPT !.formUpdateLoading = FALSE]
  /\ UNCHANGED <<editProjectDetails, values, editor, unsettled, inherited>>

answer_project(a, ok) ==
  /\ \/ GetIndividualProjectDetails(a, ok)
     \/ PatchProjectDetails(a)
     \/ FormUpdated(a)
     \/ /\ a.kind = "delete" /\ ~ok
        /\ UNCHANGED <<editProjectDetails, values, editor, flags, unsettled, inherited>>
  /\ asks' = asks \ {a}
  /\ UNCHANGED <<project, tabView, confirm, count, arrival>>

NotLoading == [editProjectDetailsLoading |-> FALSE, formUpdateLoading |-> FALSE]

\* DeleteProjectService: two seconds after the answer window.location loads the frontend anew.
redirect_home(a) ==
  /\ a.kind = "delete"
  /\ project' = Unnamed /\ tabView' = "description"
  /\ editProjectDetails' = NoDetails /\ values' = Copied(NoDetails) /\ editor' = {}
  /\ confirm' = Closed /\ flags' = NotLoading /\ asks' = {}
  /\ arrival' = count /\ unsettled' = FALSE /\ inherited' = {}
  /\ UNCHANGED count

-----------------------------------------------------------------------------
ManageInit ==
  /\ project = Unnamed /\ tabView = "description"
  /\ editProjectDetails = NoDetails /\ values = Copied(NoDetails) /\ editor = {}
  /\ confirm = Closed /\ flags = NotLoading /\ asks = {}
  /\ count = 0 /\ arrival = 0 /\ unsettled = FALSE /\ inherited = {}

ManageNext ==
  \/ \E p \in Managed : open_project(p)
  \/ leave_project
  \/ \E tab \in Tab : setTabView(tab)
  \/ handleChange \/ \E text \in SUBSET Managed : edit_instructions(text)
  \/ submission_details \/ PostFormUpdate
  \/ \E open \in BOOLEAN : setShowModal(open)
  \/ closeModal
  \/ \E name \in Managed \union {Unnamed} : handleConfirmChange(name)
  \/ onSave_delete
  \/ \E a \in asks, ok \in BOOLEAN : answer_project(a, ok)
  \/ \E a \in asks : redirect_home(a)

ManageSpec == ManageInit /\ [][ManageNext]_managePageVars

-----------------------------------------------------------------------------
(* Properties. *)

\* What is sent to a project was meant for it: the name typed to delete it and the form id of
\* an upload are its own, unless its details were still missing, failed to come, or were
\* replaced by those of an earlier page when it was sent; its new instructions stem from no
\* other project, unless the editor showed that one's when the form was opened, or its
\* details came late.
SentFits ==
  \A a \in asks :
    /\ a.kind \in {"form", "delete"} => a.of = a.project \/ a.unsettled
    /\ a.kind = "patch" => a.from \subseteq {a.project} \union a.inherited \/ a.unsettled
=============================================================================

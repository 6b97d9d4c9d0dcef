--------------------------- MODULE ProjectWizard ----------------------------
(***************************************************************************)
(* The pages of the management frontend on which a project is put together *)
(* before it is submitted: its area, its survey form, its map data, its    *)
(* tasks.  Each page writes to the createproject slice; extracts, splits   *)
(* and form checks are computed by the backend from what the slice held    *)
(* when they were asked for, and their answers are written to what it      *)
(* holds when they arrive.                                                 *)
(***************************************************************************)
EXTENDS Naturals

CONSTANTS
    Area, NoArea,       \* outlines a user may draw or upload
    Category,           \* survey types
    Form, NoForm,       \* custom forms
    ValidForm,          \* the ones the backend accepts
    None,               \* null
    MaxEdits,           \* bound: choices after the first outline and category, and jumps between pages
    MaxAsks             \* bound: extracts and splits asked for

ASSUME WizardAssumption ==
  /\ NoArea \notin Area /\ NoForm \notin Form /\ None \notin Category
  /\ ValidForm \subseteq Form
  /\ MaxEdits \in Nat /\ MaxAsks \in Nat

VARIABLES
    page, visited,  \* the page shown, and the ones the browser's history leads back to
    slice,          \* store: createproject
    values,         \* the form of the page, a copy of slice.projectDetails until it is saved
    upload,         \* component state: whether there is a custom extract, and the custom form
    calls,          \* requests to the backend that have not been answered
    submitted,      \* what the submission under way sent
    causes,         \* history: what may have mixed the parts of two projects
    edits, asks

wizardVars == <<page, visited, slice, values, upload, calls, submitted, causes, edits, asks>>

-----------------------------------------------------------------------------
Page == {"create-project", "project-area", "upload-survey", "map-data", "split-tasks"}

Split == {"DIVIDE_ON_SQUARE", "TASK_SPLITTING_ALGORITHM"}

Method == Split \union {"CHOOSE_AREA_AS_TASK"}

Extract == [way : {"osm_data_extract"}, area : Area, category : Category]
             \union [way : {"custom_data_extract"}]

Details == [formCategorySelection : Category \union {None}, custom_form : BOOLEAN,
            dataExtractWays : {"osm_data_extract", "custom_data_extract", None},
            customDataExtractUpload : BOOLEAN, data_extract_url : Extract \union {None}]

NoDetails == [formCategorySelection |-> None, custom_form |-> FALSE, dataExtractWays |-> None,
              customDataExtractUpload |-> FALSE, data_extract_url |-> None]

Slice == [drawnGeojson : Area \union {NoArea}, projectDetails : Details,
          dataExtractGeojson : Extract \union {None}, isFgbFetching : BOOLEAN,
          taskSplittingMethod : Method \union {None}, isTasksSplit : [Split -> BOOLEAN],
          dividedTaskGeojson : [area : Area, method : Split] \union {None},
          loading : [Split -> BOOLEAN], customFileValidity : BOOLEAN,
          validateCustomFormLoading : BOOLEAN,
          projectDetailsLoading : BOOLEAN, canSwitchCreateProjectSteps : BOOLEAN]

Call == [kind : {"extract"}, area : Area, category : Category, values : Details]
          \union [kind : Split, area : Area]
          \union [kind : {"validate"}, form : Form]
          \union [kind : {"create"}]

Submission == [drawnGeojson : Area, projectDetails : Details, upload : BOOLEAN, form : Form \union {NoForm},
               shown : Extract \union {None}, method : Method,
               tasks : [area : Area, method : Split] \union {None}]

WizardTypeOK ==
  /\ page \in Page /\ visited \subseteq Page
  /\ slice \in Slice
  /\ values \in Details
  /\ upload \in [extract : BOOLEAN, form : Form \union {NoForm}]
  /\ calls \subseteq Call
  /\ submitted \in Submission \union {None}
  /\ causes \subseteq {"replaced", "late", "jumped", "other source"}
  /\ edits \in 0..MaxEdits /\ asks \in 0..MaxAsks

NoUpload == [extract |-> FALSE, form |-> NoForm]

WizardInit ==
  /\ page = "create-project" /\ visited = {"create-project"}
  /\ slice = [drawnGeojson |-> NoArea, projectDetails |-> NoDetails, dataExtractGeojson |-> None,
              isFgbFetching |-> FALSE, taskSplittingMethod |-> None,
              isTasksSplit |-> [m \in Split |-> FALSE], dividedTaskGeojson |-> None,
              loading |-> [m \in Split |-> FALSE], customFileValidity |-> FALSE,
              validateCustomFormLoading |-> FALSE,
              projectDetailsLoading |-> FALSE, canSwitchCreateProjectSteps |-> FALSE]
  /\ values = NoDetails /\ upload = NoUpload
  /\ calls = {} /\ submitted = None /\ causes = {}
  /\ edits = 0 /\ asks = 0

\* The first outline and the first category are free.
Edit(again) ==
  /\ again => edits < MaxEdits
  /\ edits' = edits + IF again THEN 1 ELSE 0

Blame(cond, cause) == causes' = IF cond THEN causes \union {cause} ELSE causes

\* SetIndividualProjectDetailsData; useForm copies it into the form of the page.
Save(s, details) ==
  /\ slice' = [s EXCEPT !.projectDetails = details]
  /\ values' = details

\* SelectForm checks a form that is not known to be valid each time it is shown.
MountCalls(p, s) ==
  IF p = "upload-survey" /\ upload.form # NoForm /\ ~s.customFileValidity
  THEN {[kind |-> "validate", form |-> upload.form]} ELSE {}

\* What a page does when it is shown.
Mount(p, s) ==
  [s EXCEPT !.dividedTaskGeojson =
              IF p = "split-tasks" /\ s.taskSplittingMethod = "CHOOSE_AREA_AS_TASK"
              THEN None ELSE @,
            !.validateCustomFormLoading = @ \/ MountCalls(p, s) # {}]

\* Save what the form holds and show page p.
Go(p, details) ==
  /\ page' = p /\ visited' = visited \union {p}
  /\ Save(Mount(p, slice), details)
  /\ calls' = calls \union MountCalls(p, slice)

-----------------------------------------------------------------------------
(* The pages. *)

ProjectDetailsForm ==
  /\ page = "create-project"
  /\ Go("project-area", values)
  /\ UNCHANGED <<upload, submitted, causes, edits, asks>>

\* onDraw: only while there is no area.
draw(a) ==
  /\ page = "project-area" /\ slice.drawnGeojson = NoArea /\ Edit(FALSE)
  /\ slice' = [slice EXCEPT !.drawnGeojson = a]
  /\ UNCHANGED <<page, visited, values, upload, calls, submitted, causes, asks>>

\* changeFileHandler of UploadArea: a file may replace the area without a reset; one that is
\* no geojson removes it.
upload_area(a) ==
  /\ page = "project-area" /\ a # slice.drawnGeojson
  /\ Edit(slice.drawnGeojson # NoArea)
  /\ slice' = [slice EXCEPT !.drawnGeojson = a]
  /\ Blame(slice.dataExtractGeojson # None \/ slice.dividedTaskGeojson # None, "replaced")
  /\ UNCHANGED <<page, visited, values, upload, calls, submitted, asks>>

ClearProjectStepState(s, details) ==
  [s EXCEPT !.dividedTaskGeojson = None, !.taskSplittingMethod = None,
            !.dataExtractGeojson = None, !.projectDetails = details]

\* resetFile of UploadArea, or onModify, which leaves another area.
change_area(a) ==
  /\ page = "project-area" /\ slice.drawnGeojson # NoArea /\ a # slice.drawnGeojson
  /\ Edit(TRUE)
  /\ slice' = ClearProjectStepState([slice EXCEPT !.drawnGeojson = a], values)
  /\ upload' = [upload EXCEPT !.extract = FALSE]
  /\ UNCHANGED <<page, visited, values, calls, submitted, causes, asks>>

UploadArea ==
  /\ page = "project-area"
  /\ \/ slice.drawnGeojson # NoArea /\ Go("upload-survey", values)
     \/ Go("create-project", values)
  /\ UNCHANGED <<upload, submitted, causes, edits, asks>>

\* Mutant of select_category: the extract of the old category is kept.
select_category_kept(c) ==
  /\ page = "upload-survey" /\ c # values.formCategorySelection
  /\ Edit(values.formCategorySelection # None)
  /\ values' = [values EXCEPT !.formCategorySelection = c]
  /\ UNCHANGED <<page, visited, slice, upload, calls, submitted, causes, asks>>

select_category(c) ==
  /\ page = "upload-survey" /\ c # values.formCategorySelection
  /\ Edit(values.formCategorySelection # None)
  /\ values' = [values EXCEPT !.formCategorySelection = c]
  /\ slice' = [slice EXCEPT !.dataExtractGeojson = None]
  /\ UNCHANGED <<page, visited, upload, calls, submitted, causes, asks>>

form_ways ==
  /\ page = "upload-survey" /\ values.formCategorySelection # None
  /\ Edit(TRUE)
  /\ values' = [values EXCEPT !.custom_form = ~@]
  /\ UNCHANGED <<page, visited, slice, upload, calls, submitted, causes, asks>>

\* changeFileHandler of SelectForm, and the effect on customFormFile.
upload_form(f) ==
  /\ page = "upload-survey" /\ values.custom_form /\ f # upload.form
  /\ Edit(TRUE)
  /\ upload' = [upload EXCEPT !.form = f]
  /\ slice' = [slice EXCEPT !.customFileValidity = FALSE, !.validateCustomFormLoading = TRUE]
  /\ calls' = calls \union {[kind |-> "validate", form |-> f]}
  /\ UNCHANGED <<page, visited, values, submitted, causes, asks>>

\* resetFile of SelectForm
reset_form ==
  /\ page = "upload-survey" /\ values.custom_form /\ upload.form # NoForm
  /\ upload' = [upload EXCEPT !.form = NoForm]
  /\ slice' = [slice EXCEPT !.customFileValidity = FALSE]
  /\ UNCHANGED <<page, visited, values, calls, submitted, causes, edits, asks>>

SelectForm ==
  /\ page = "upload-survey"
  /\ \/ /\ values.formCategorySelection # None
        /\ values.custom_form => slice.customFileValidity /\ upload.form # NoForm
        /\ ~slice.validateCustomFormLoading
        /\ Go("map-data", values)
     \/ /\ values.formCategorySelection # None          \* "Your file is invalid"
        /\ values.custom_form /\ upload.form # NoForm /\ ~slice.customFileValidity
        /\ ~slice.validateCustomFormLoading
        /\ Save(slice, values)
        /\ UNCHANGED <<page, visited, calls>>
     \/ Go("project-area", values)
  /\ UNCHANGED <<upload, submitted, causes, edits, asks>>

extract_way(way) ==
  /\ page = "map-data" /\ way # values.dataExtractWays
  /\ Edit(TRUE)
  /\ values' = [values EXCEPT !.dataExtractWays = way]
  /\ UNCHANGED <<page, visited, slice, upload, calls, submitted, causes, asks>>

\* Fetch OSM Data
generateDataExtract ==
  /\ page = "map-data" /\ values.dataExtractWays = "osm_data_extract"
  /\ ~slice.isFgbFetching /\ ~(slice.dataExtractGeojson # None /\ upload.extract)
  /\ slice.drawnGeojson # NoArea /\ slice.projectDetails.formCategorySelection # None
  /\ asks < MaxAsks /\ asks' = asks + 1
  /\ upload' = [upload EXCEPT !.extract = FALSE]
  /\ slice' = [slice EXCEPT !.dataExtractGeojson = None, !.isFgbFetching = TRUE]
  /\ calls' = calls \union {[kind |-> "extract", area |-> slice.drawnGeojson, values |-> values,
                             category |-> slice.projectDetails.formCategorySelection]}
  /\ UNCHANGED <<page, visited, values, submitted, causes, edits>>

\* changeFileHandler of DataExtract with a file that has features, or none.
upload_extract(good) ==
  /\ page = "map-data" /\ values.dataExtractWays = "custom_data_extract"
  /\ Edit(TRUE)
  /\ upload' = [upload EXCEPT !.extract = TRUE]
  /\ values' = [values EXCEPT !.customDataExtractUpload = good]
  /\ slice' = [slice EXCEPT !.dataExtractGeojson =
                 IF good THEN [way |-> "custom_data_extract"] ELSE None]
  /\ UNCHANGED <<page, visited, calls, submitted, causes, asks>>

reset_extract ==
  /\ page = "map-data" /\ values.dataExtractWays = "custom_data_extract" /\ upload.extract
  /\ upload' = [upload EXCEPT !.extract = FALSE]
  /\ values' = [values EXCEPT !.customDataExtractUpload = FALSE]
  /\ slice' = [slice EXCEPT !.dataExtractGeojson = None]
  /\ UNCHANGED <<page, visited, calls, submitted, causes, edits, asks>>

DataExtract ==
  /\ page = "map-data"
  /\ \/ /\ slice.dataExtractGeojson # None /\ ~slice.isFgbFetching
        /\ values.dataExtractWays # None
        /\ values.dataExtractWays = "custom_data_extract" => values.customDataExtractUpload
        /\ Go("split-tasks", values)
        /\ Blame(slice.dataExtractGeojson.way # values.dataExtractWays, "other source")
     \/ /\ Go("upload-survey", values)
        /\ UNCHANGED causes
  /\ UNCHANGED <<upload, submitted, edits, asks>>

splitting_method(m) ==
  /\ page = "split-tasks" /\ m # slice.taskSplittingMethod
  /\ slice' = [slice EXCEPT !.taskSplittingMethod = m,
       !.isTasksSplit = IF m \in Split THEN @ ELSE [k \in Split |-> FALSE],
       !.dividedTaskGeojson = IF m \in Split THEN @ ELSE None]
  /\ UNCHANGED <<page, visited, values, upload, calls, submitted, causes, edits, asks>>

generateTaskBasedOnSelection ==
  LET m == slice.taskSplittingMethod IN
  /\ page = "split-tasks" /\ m \in Split /\ slice.drawnGeojson # NoArea
  /\ \A k \in Split : ~slice.loading[k]
  /\ ~slice.isFgbFetching
  /\ asks < MaxAsks /\ asks' = asks + 1
  /\ Save([slice EXCEPT !.loading[m] = TRUE], values)
  /\ calls' = calls \union {[kind |-> m, area |-> slice.drawnGeojson]}
  /\ UNCHANGED <<page, visited, upload, submitted, causes, edits>>

previous_SplitTasks ==
  /\ page = "split-tasks"
  /\ Go("map-data", values)
  /\ UNCHANGED <<upload, submitted, causes, edits, asks>>

checkTasksGeneration ==
  \/ slice.taskSplittingMethod = "CHOOSE_AREA_AS_TASK"
  \/ \E m \in Split : slice.taskSplittingMethod = m /\ slice.isTasksSplit[m]

submission ==
  /\ page = "split-tasks" /\ slice.drawnGeojson # NoArea
  /\ checkTasksGeneration /\ ~slice.projectDetailsLoading
  /\ submitted' = [drawnGeojson |-> slice.drawnGeojson, projectDetails |-> values,
                   upload |-> upload.extract, form |-> upload.form,
                   shown |-> slice.dataExtractGeojson, method |-> slice.taskSplittingMethod,
                   tasks |-> slice.dividedTaskGeojson]
  /\ Save([slice EXCEPT !.projectDetailsLoading = TRUE, !.canSwitchCreateProjectSteps = TRUE],
          values)
  /\ calls' = calls \union {[kind |-> "create"]}
  /\ UNCHANGED <<page, visited, upload, causes, edits, asks>>

\* StepSwitcher after a submission, or the history of the browser: nothing is saved or checked.
navigate(p) ==
  /\ p # page /\ (p \in visited \/ slice.canSwitchCreateProjectSteps)
  /\ Edit(TRUE)
  /\ page' = p /\ visited' = visited \union {p}
  /\ slice' = Mount(p, slice)
  /\ values' = slice.projectDetails
  /\ calls' = calls \union MountCalls(p, slice)
  /\ causes' = causes \union {"jumped"}
  /\ UNCHANGED <<upload, submitted, asks>>

-----------------------------------------------------------------------------
(* Answers. *)

\* Mutant of extract_answer: the flag is kept when the request fails.
extract_answer_stuck(c) ==
  LET e == [way |-> "osm_data_extract", area |-> c.area, category |-> c.category]
      details == [c.values EXCEPT !.data_extract_url = e, !.customDataExtractUpload = FALSE] IN
  /\ c.kind = "extract"
  /\ \/ Save([slice EXCEPT !.isFgbFetching = FALSE, !.dataExtractGeojson = e], details)
     \/ UNCHANGED <<slice, values>>
  /\ UNCHANGED <<upload, submitted, causes>>

\* SetIndividualProjectDetailsData with the form as it was when the button was clicked, then
\* the file behind the url, if it has features.
extract_answer(c) ==
  LET e == [way |-> "osm_data_extract", area |-> c.area, category |-> c.category]
      details == [c.values EXCEPT !.data_extract_url = e, !.customDataExtractUpload = FALSE]
      done == [slice EXCEPT !.isFgbFetching = FALSE] IN
  /\ c.kind = "extract"
  /\ \/ Save([done EXCEPT !.dataExtractGeojson = e], details)
     \/ Save(done, details)
     \/ slice' = done /\ UNCHANGED values
  /\ Blame(\/ slice.drawnGeojson # c.area \/ page # "map-data"
           \/ [values EXCEPT !.data_extract_url = c.values.data_extract_url] # c.values, "late")
  /\ UNCHANGED <<upload, submitted>>

\* GetDividedTaskFromGeojson, TaskSplittingPreviewService
split_answer(c) ==
  LET done == [slice EXCEPT !.loading[c.kind] = FALSE] IN
  /\ c.kind \in Split
  /\ \/ slice' = [done EXCEPT !.isTasksSplit = [m \in Split |-> m = c.kind],
                              !.dividedTaskGeojson = [area |-> c.area, method |-> c.kind]]
     \/ slice' = done           \* it failed, or has no features
  /\ Blame(slice.drawnGeojson # c.area \/ slice.taskSplittingMethod # c.kind, "late")
  /\ UNCHANGED <<values, upload, submitted>>

ValidateCustomForm(c) ==
  /\ c.kind = "validate"
  /\ slice' = [slice EXCEPT !.customFileValidity = c.form \in ValidForm,
                            !.validateCustomFormLoading = FALSE]
  /\ Blame(upload.form # c.form, "late")
  /\ UNCHANGED <<values, upload, submitted>>

\* The project is made and the wizard cleared (the split flags are not), or an error is shown.
submission_answer(c) ==
  /\ c.kind = "create"
  /\ \/ /\ slice' = [slice EXCEPT !.projectDetailsLoading = FALSE]
        /\ UNCHANGED <<page, visited, values, upload>>
     \/ /\ slice' = [slice EXCEPT !.projectDetailsLoading = FALSE, !.projectDetails = NoDetails,
              !.drawnGeojson = NoArea, !.dataExtractGeojson = None, !.dividedTaskGeojson = None,
              !.taskSplittingMethod = None, !.canSwitchCreateProjectSteps = FALSE,
              !.loading["DIVIDE_ON_SQUARE"] = FALSE]
        /\ page' = "create-project" /\ visited' = {"create-project"}
        /\ values' = NoDetails /\ upload' = NoUpload
  /\ submitted' = None
  /\ UNCHANGED causes

answer(c) ==
  /\ calls' = calls \ {c}
  /\ UNCHANGED <<edits, asks>>
  /\ \/ /\ extract_answer(c) \/ split_answer(c) \/ ValidateCustomForm(c)
        /\ UNCHANGED <<page, visited>>
     \/ submission_answer(c)

WizardNext ==
  \/ ProjectDetailsForm \/ UploadArea \/ SelectForm \/ DataExtract
  \/ \E a \in Area : draw(a) \/ upload_area(a) \/ change_area(a)
  \/ upload_area(NoArea) \/ change_area(NoArea)
  \/ \E c \in Category : select_category(c)
  \/ form_ways \/ reset_form
  \/ \E f \in Form : upload_form(f)
  \/ \E way \in {"osm_data_extract", "custom_data_extract"} : extract_way(way)
  \/ generateDataExtract
  \/ \E good \in BOOLEAN : upload_extract(good)
  \/ reset_extract
  \/ \E m \in Method : splitting_method(m)
  \/ generateTaskBasedOnSelection \/ previous_SplitTasks \/ submission
  \/ \E p \in Page : navigate(p)
  \/ \E c \in calls : answer(c)

WizardSpec == WizardInit /\ [][WizardNext]_wizardVars

\* Requests are answered, or fail, whatever else is being asked for.
WizardFairSpec ==
  /\ WizardSpec
  /\ \A k \in {"extract", "validate", "create"} \union Split :
       WF_wizardVars(\E c \in calls : c.kind = k /\ answer(c))

-----------------------------------------------------------------------------
(* Properties. *)

\* The parts of a submitted project belong together: the map data were extracted for its
\* outline and category and are what the map shows, a custom form has been accepted by the
\* backend, and tasks come from a split of its outline by the method it names; unless a file
\* replaced the area without a reset, an answer came late, the user jumped between pages, or
\* left the page of one source with the data of the other.
SubmissionConsistent ==
  submitted # None /\ causes = {} =>
    LET d == submitted.projectDetails IN
    /\ submitted.shown # None /\ submitted.shown.way = d.dataExtractWays
    /\ IF d.dataExtractWays = "osm_data_extract"
       THEN /\ d.data_extract_url = submitted.shown
            /\ d.data_extract_url.area = submitted.drawnGeojson
            /\ d.data_extract_url.category = d.formCategorySelection
       ELSE submitted.upload
    /\ d.custom_form => submitted.form \in ValidForm
    /\ submitted.tasks # None => /\ submitted.tasks.area = submitted.drawnGeojson
                                 /\ submitted.tasks.method = submitted.method

\* Nothing spins for ever: every page can be left again.
SpinnersEnd ==
  /\ slice.isFgbFetching ~> ~slice.isFgbFetching
  /\ slice.projectDetailsLoading ~> ~slice.projectDetailsLoading
=============================================================================

---------------------------- MODULE ProjectsProofs ----------------------------
(***************************************************************************)
(* The making of a project: what the pages of the wizard collect            *)
(* (ProjectWizard), and what the requests that its submission sends do      *)
(* (ProjectCreation), for any outlines, categories and forms, any number of *)
(* wizards, projects, submissions, failures and lost answers.               *)
(***************************************************************************)
EXTENDS ProjectCreation, ProjectWizard, TLAPS

-----------------------------------------------------------------------------
\* What a submission would send, and what the wizard holds of it, as long as nothing mixed the
\* parts of two projects.
Fetched == slice.dataExtractGeojson
Divided == slice.dividedTaskGeojson

\* The category an extract is asked for is the one the form of the page shows and saves.
Asked ==
  /\ \A c \in calls : c.kind = "extract" => c.category = c.values.formCategorySelection
  /\ page # "upload-survey" =>
       values.formCategorySelection = slice.projectDetails.formCategorySelection

\* A custom extract that is shown is still there as a file.
Uploaded == Fetched # None /\ Fetched.way = "custom_data_extract" => upload.extract

ExtractFits ==
  /\ Fetched # None /\ Fetched.way = "osm_data_extract" =>
       /\ Fetched.area = slice.drawnGeojson /\ Fetched.category = values.formCategorySelection
       /\ values.data_extract_url = Fetched
  /\ page = "split-tasks" => Fetched # None /\ Fetched.way = values.dataExtractWays

FormFits ==
  /\ slice.customFileValidity /\ upload.form # NoForm => upload.form \in ValidForm
  /\ page \in {"map-data", "split-tasks"} /\ values.custom_form => upload.form \in ValidForm

TasksFit ==
  /\ Divided # None =>
       /\ Divided.area = slice.drawnGeojson
       /\ \A m \in Split : slice.isTasksSplit[m] => m = Divided.method
  /\ slice.taskSplittingMethod = "CHOOSE_AREA_AS_TASK" => Divided = None

Consistent == causes = {} => ExtractFits /\ FormFits /\ TasksFit

Parts == Asked /\ Uploaded /\ Consistent

-----------------------------------------------------------------------------
(* The types. *)

LEMMA SliceFields ==
  ASSUME NEW s \in Slice
  PROVE  /\ s.drawnGeojson \in Area \union {NoArea} /\ s.projectDetails \in Details
         /\ s.dataExtractGeojson \in Extract \union {None} /\ s.isFgbFetching \in BOOLEAN
         /\ s.taskSplittingMethod \in Method \union {None} /\ s.isTasksSplit \in [Split -> BOOLEAN]
         /\ s.dividedTaskGeojson \in [area : Area, method : Split] \union {None}
         /\ s.loading \in [Split -> BOOLEAN] /\ s.customFileValidity \in BOOLEAN
         /\ s.validateCustomFormLoading \in BOOLEAN /\ s.projectDetailsLoading \in BOOLEAN
         /\ s.canSwitchCreateProjectSteps \in BOOLEAN
BY DEF Slice

\* What a page is left or shown with.
LEMMA Mounted ==
  ASSUME NEW s \in Slice, NEW p
  PROVE  /\ Mount(p, s) \in Slice
         /\ Mount(p, s).projectDetails = s.projectDetails
         /\ Mount(p, s).dataExtractGeojson = s.dataExtractGeojson
         /\ Mount(p, s).drawnGeojson = s.drawnGeojson
         /\ Mount(p, s).dividedTaskGeojson \in {s.dividedTaskGeojson, None}
         /\ Mount(p, s).taskSplittingMethod = s.taskSplittingMethod
         /\ Mount(p, s).isTasksSplit = s.isTasksSplit
         /\ Mount(p, s).customFileValidity = s.customFileValidity
<1>1. /\ (s.validateCustomFormLoading \/ MountCalls(p, s) # {}) \in BOOLEAN
      /\ None \in [area : Area, method : Split] \union {None}
  OBVIOUS
<1>2. (IF p = "split-tasks" /\ s.taskSplittingMethod = "CHOOSE_AREA_AS_TASK"
       THEN None ELSE s.dividedTaskGeojson) \in [area : Area, method : Split] \union {None}
  BY SliceFields
<1> DEFINE m == s.validateCustomFormLoading \/ MountCalls(p, s) # {}
           d == IF p = "split-tasks" /\ s.taskSplittingMethod = "CHOOSE_AREA_AS_TASK"
                THEN None ELSE s.dividedTaskGeojson
<1>3. Mount(p, s) = [s EXCEPT !.dividedTaskGeojson = d, !.validateCustomFormLoading = m]
  BY DEF Mount
<1>4. m \in BOOLEAN /\ d \in [area : Area, method : Split] \union {None}
      /\ d \in {s.dividedTaskGeojson, None}
  BY <1>1, <1>2
<1> HIDE DEF m, d
<1> QED
  BY <1>3, <1>4 DEF Slice

LEMMA MountCallsTyped ==
  ASSUME WizardTypeOK, NEW p, NEW s, NEW c \in MountCalls(p, s)
  PROVE  c \in Call /\ c.kind = "validate"
<1>1. upload.form # NoForm /\ c = [kind |-> "validate", form |-> upload.form]
  BY DEF MountCalls
<1>2. upload.form \in Form
  BY <1>1 DEF WizardTypeOK
<1> QED
  BY <1>1, <1>2 DEF Call

LEMMA Gone ==
  ASSUME WizardTypeOK, NEW p \in Page, NEW details \in Details, Go(p, details)
  PROVE  /\ page' = p /\ values' = details /\ visited' \subseteq Page
         /\ slice' \in Slice /\ slice'.projectDetails = details
         /\ slice'.dataExtractGeojson = slice.dataExtractGeojson
         /\ slice'.drawnGeojson = slice.drawnGeojson
         /\ slice'.dividedTaskGeojson \in {slice.dividedTaskGeojson, None}
         /\ slice'.taskSplittingMethod = slice.taskSplittingMethod
         /\ slice'.isTasksSplit = slice.isTasksSplit
         /\ slice'.customFileValidity = slice.customFileValidity
         /\ calls' \subseteq Call /\ \A c \in calls' : c.kind = "extract" => c \in calls
<1>0. slice \in Slice /\ visited \subseteq Page /\ calls \subseteq Call
  BY DEF WizardTypeOK
<1>1. /\ page' = p /\ values' = details /\ visited' = visited \union {p}
      /\ calls' = calls \union MountCalls(p, slice)
      /\ slice' = [Mount(p, slice) EXCEPT !.projectDetails = details]
  BY DEF Go, Save
<1>2. PICK s \in Slice : s = Mount(p, slice)
  BY <1>0, Mounted
<1>3. slice' = [s EXCEPT !.projectDetails = details]
  BY <1>1, <1>2
<1>4. /\ slice' \in Slice /\ slice'.projectDetails = details
      /\ slice'.dataExtractGeojson = s.dataExtractGeojson
      /\ slice'.drawnGeojson = s.drawnGeojson
      /\ slice'.dividedTaskGeojson = s.dividedTaskGeojson
      /\ slice'.taskSplittingMethod = s.taskSplittingMethod
      /\ slice'.isTasksSplit = s.isTasksSplit
      /\ slice'.customFileValidity = s.customFileValidity
  BY <1>3 DEF Slice
<1>5. calls' \subseteq Call /\ \A c \in calls' : c.kind = "extract" => c \in calls
  BY <1>0, <1>1, MountCallsTyped
<1>6. /\ s.dataExtractGeojson = slice.dataExtractGeojson
      /\ s.drawnGeojson = slice.drawnGeojson
      /\ s.dividedTaskGeojson \in {slice.dividedTaskGeojson, None}
      /\ s.taskSplittingMethod = slice.taskSplittingMethod
      /\ s.isTasksSplit = slice.isTasksSplit
      /\ s.customFileValidity = slice.customFileValidity
  BY <1>0, <1>2, Mounted
<1>7. visited' \subseteq Page
  BY <1>0, <1>1
<1>8. slice'.dividedTaskGeojson \in {slice.dividedTaskGeojson, None}
  BY <1>4, <1>6
<1> QED
  BY <1>1, <1>4, <1>5, <1>6, <1>7, <1>8, Zenon

\* The other variables, which most steps leave.
Rest ==
  /\ upload \in [extract : BOOLEAN, form : Form \union {NoForm}]
  /\ submitted \in Submission \union {None}
  /\ causes \subseteq {"replaced", "late", "jumped", "other source"}
  /\ edits \in 0..MaxEdits /\ asks \in 0..MaxAsks

LEMMA EditTyped ==
  ASSUME WizardTypeOK, NEW again, again \in BOOLEAN, Edit(again)
  PROVE  edits' \in 0..MaxEdits
<1>1. edits \in 0..MaxEdits /\ MaxEdits \in Nat
  BY WizardAssumption DEF WizardTypeOK
<1>2. CASE again
  BY <1>1, <1>2 DEF Edit
<1>3. CASE ~again
  BY <1>1, <1>3 DEF Edit
<1> QED
  BY <1>2, <1>3

LEMMA BlameTyped ==
  ASSUME WizardTypeOK, NEW cond, NEW cause \in {"replaced", "late", "jumped", "other source"},
         Blame(cond, cause)
  PROVE  /\ causes' \subseteq {"replaced", "late", "jumped", "other source"}
         /\ causes \subseteq causes'
         /\ causes' = {} => ~cond
BY DEF Blame, WizardTypeOK

\* A step from one page to the next.
LEMMA GoTyped ==
  ASSUME WizardTypeOK, NEW p \in Page, Go(p, values), Rest'
  PROVE  WizardTypeOK'
<1>1. values \in Details
  BY DEF WizardTypeOK
<1>2. /\ page' = p /\ values' = values /\ visited' \subseteq Page /\ slice' \in Slice
      /\ calls' \subseteq Call
  BY <1>1, Gone
<1> QED
  BY <1>1, <1>2 DEF WizardTypeOK, Rest

\* A step on a page.
LEMMA StayTyped ==
  ASSUME WizardTypeOK, UNCHANGED <<page, visited>>, slice' \in Slice, values' \in Details,
         calls' \subseteq Call, Rest'
  PROVE  WizardTypeOK'
BY DEF WizardTypeOK, Rest

LEMMA PagesTyped ==
  ASSUME WizardTypeOK,
         ProjectDetailsForm \/ UploadArea \/ SelectForm \/ DataExtract \/ previous_SplitTasks
  PROVE  WizardTypeOK'
<1>0. slice \in Slice /\ values \in Details /\ calls \subseteq Call /\ Rest
  BY DEF WizardTypeOK, Rest
<1>1. CASE ProjectDetailsForm
  <2>1. Go("project-area", values) /\ UNCHANGED <<upload, submitted, causes, edits, asks>>
    BY <1>1 DEF ProjectDetailsForm
  <2> QED
    BY <1>0, <2>1, GoTyped DEF Rest, Page
<1>2. CASE UploadArea
  <2>1. /\ Go("upload-survey", values) \/ Go("create-project", values)
        /\ UNCHANGED <<upload, submitted, causes, edits, asks>>
    BY <1>2 DEF UploadArea
  <2> QED
    BY <1>0, <2>1, GoTyped DEF Rest, Page
<1>3. CASE SelectForm
  <2>1. /\ \/ Go("map-data", values) \/ Go("project-area", values)
           \/ Save(slice, values) /\ UNCHANGED <<page, visited, calls>>
        /\ UNCHANGED <<upload, submitted, causes, edits, asks>>
    BY <1>3 DEF SelectForm
  <2>2. CASE Go("map-data", values) \/ Go("project-area", values)
    BY <1>0, <2>1, <2>2, GoTyped DEF Rest, Page
  <2>3. CASE Save(slice, values) /\ UNCHANGED <<page, visited, calls>>
    <3>1. slice' \in Slice /\ values' = values
      BY <1>0, <2>3 DEF Save, Slice
    <3> QED
      BY <1>0, <2>1, <2>3, <3>1, StayTyped DEF Rest
  <2> QED
    BY <2>1, <2>2, <2>3
<1>4. CASE DataExtract
  <2>1. /\ \/ /\ Go("split-tasks", values)
              /\ Blame(slice.dataExtractGeojson.way # values.dataExtractWays, "other source")
           \/ Go("upload-survey", values) /\ UNCHANGED causes
        /\ UNCHANGED <<upload, submitted, edits, asks>>
    BY <1>4 DEF DataExtract
  <2>2. causes' \subseteq {"replaced", "late", "jumped", "other source"}
    BY <1>0, <2>1, BlameTyped DEF Rest
  <2> QED
    BY <1>0, <2>1, <2>2, GoTyped DEF Rest, Page
<1>5. CASE previous_SplitTasks
  <2>1. Go("map-data", values) /\ UNCHANGED <<upload, submitted, causes, edits, asks>>
    BY <1>5 DEF previous_SplitTasks
  <2> QED
    BY <1>0, <2>1, GoTyped DEF Rest, Page
<1> QED
  BY <1>1, <1>2, <1>3, <1>4, <1>5

LEMMA AreaTyped ==
  ASSUME WizardTypeOK, NEW a \in Area \union {NoArea},
         (a \in Area /\ draw(a)) \/ upload_area(a) \/ change_area(a)
  PROVE  WizardTypeOK'
<1>0. slice \in Slice /\ values \in Details /\ calls \subseteq Call /\ Rest
  BY DEF WizardTypeOK, Rest
<1>1. CASE draw(a)
  <2>1. /\ Edit(FALSE) /\ slice' = [slice EXCEPT !.drawnGeojson = a]
        /\ UNCHANGED <<page, visited, values, upload, calls, submitted, causes, asks>>
    BY <1>1 DEF draw
  <2>2. slice' \in Slice /\ edits' \in 0..MaxEdits
    BY <1>0, <2>1, EditTyped DEF Slice
  <2> QED
    BY <1>0, <2>1, <2>2, StayTyped DEF Rest
<1>2. CASE upload_area(a)
  <2>1. /\ Edit(slice.drawnGeojson # NoArea) /\ slice' = [slice EXCEPT !.drawnGeojson = a]
        /\ Blame(slice.dataExtractGeojson # None \/ slice.dividedTaskGeojson # None, "replaced")
        /\ UNCHANGED <<page, visited, values, upload, calls, submitted, asks>>
    BY <1>2 DEF upload_area
  <2>2. slice' \in Slice
    BY <1>0, <2>1 DEF Slice
  <2>3. edits' \in 0..MaxEdits
    BY <2>1, EditTyped
  <2>4. causes' \subseteq {"replaced", "late", "jumped", "other source"}
    BY <2>1, BlameTyped
  <2> QED
    BY <1>0, <2>1, <2>2, <2>3, <2>4, StayTyped DEF Rest
<1>3. CASE change_area(a)
  <2>1. /\ Edit(TRUE) /\ upload' = [upload EXCEPT !.extract = FALSE]
        /\ slice' = ClearProjectStepState([slice EXCEPT !.drawnGeojson = a], values)
        /\ UNCHANGED <<page, visited, values, calls, submitted, causes, asks>>
    BY <1>3 DEF change_area
  <2>2. slice' \in Slice
    BY <1>0, <2>1 DEF Slice, ClearProjectStepState
  <2>3. edits' \in 0..MaxEdits
    BY <2>1, EditTyped
  <2>4. upload' \in [extract : BOOLEAN, form : Form \union {NoForm}]
    BY <1>0, <2>1 DEF Rest
  <2> QED
    BY <1>0, <2>1, <2>2, <2>3, <2>4, StayTyped DEF Rest
<1> QED
  BY <1>1, <1>2, <1>3

LEMMA ChoiceTyped ==
  ASSUME WizardTypeOK,
         \/ form_ways \/ \E c \in Category : select_category(c)
         \/ \E way \in {"osm_data_extract", "custom_data_extract"} : extract_way(way)
         \/ \E m \in Method : splitting_method(m)
  PROVE  WizardTypeOK'
<1>0. slice \in Slice /\ values \in Details /\ calls \subseteq Call /\ Rest
  BY DEF WizardTypeOK, Rest
<1>1. CASE form_ways
  <2>1. /\ Edit(TRUE) /\ values' = [values EXCEPT !.custom_form = ~values.custom_form]
        /\ UNCHANGED <<page, visited, slice, upload, calls, submitted, causes, asks>>
    BY <1>1 DEF form_ways
  <2>2. values' \in Details
    BY <1>0, <2>1 DEF Details
  <2>3. edits' \in 0..MaxEdits
    BY <2>1, EditTyped
  <2> QED
    BY <1>0, <2>1, <2>2, <2>3, StayTyped DEF Rest
<1>2. ASSUME NEW c \in Category, select_category(c) PROVE WizardTypeOK'
  <2>1. /\ Edit(values.formCategorySelection # None)
        /\ values' = [values EXCEPT !.formCategorySelection = c]
        /\ slice' = [slice EXCEPT !.dataExtractGeojson = None]
        /\ UNCHANGED <<page, visited, upload, calls, submitted, causes, asks>>
    BY <1>2 DEF select_category
  <2>2. values' \in Details /\ slice' \in Slice
    BY <1>0, <2>1 DEF Details, Slice
  <2>3. edits' \in 0..MaxEdits
    BY <2>1, EditTyped
  <2> QED
    BY <1>0, <2>1, <2>2, <2>3, StayTyped DEF Rest
<1>3. ASSUME NEW way \in {"osm_data_extract", "custom_data_extract"}, extract_way(way)
      PROVE  WizardTypeOK'
  <2>1. /\ Edit(TRUE) /\ values' = [values EXCEPT !.dataExtractWays = way]
        /\ UNCHANGED <<page, visited, slice, upload, calls, submitted, causes, asks>>
    BY <1>3 DEF extract_way
  <2>2. values' \in Details
    BY <1>0, <2>1 DEF Details
  <2>3. edits' \in 0..MaxEdits
    BY <2>1, EditTyped
  <2> QED
    BY <1>0, <2>1, <2>2, <2>3, StayTyped DEF Rest
<1>4. ASSUME NEW m \in Method, splitting_method(m) PROVE WizardTypeOK'
  <2>1. /\ slice' = [slice EXCEPT !.taskSplittingMethod = m,
             !.isTasksSplit = IF m \in Split THEN slice.isTasksSplit ELSE [k \in Split |-> FALSE],
             !.dividedTaskGeojson = IF m \in Split THEN slice.dividedTaskGeojson ELSE None]
        /\ UNCHANGED <<page, visited, values, upload, calls, submitted, causes, edits, asks>>
    BY <1>4 DEF splitting_method
  <2>2. slice' \in Slice
    BY <1>0, <1>4, <2>1 DEF Slice
  <2> QED
    BY <1>0, <2>1, <2>2, StayTyped DEF Rest
<1> QED
  BY <1>1, <1>2, <1>3, <1>4

LEMMA FileTyped ==
  ASSUME WizardTypeOK,
         \/ reset_form \/ reset_extract \/ \E f \in Form : upload_form(f)
         \/ \E good \in BOOLEAN : upload_extract(good)
  PROVE  WizardTypeOK'
<1>0. slice \in Slice /\ values \in Details /\ calls \subseteq Call /\ Rest
      /\ upload \in [extract : BOOLEAN, form : Form \union {NoForm}]
  BY DEF WizardTypeOK, Rest
<1>1. CASE reset_form
  <2>1. /\ upload' = [upload EXCEPT !.form = NoForm]
        /\ slice' = [slice EXCEPT !.customFileValidity = FALSE]
        /\ UNCHANGED <<page, visited, values, calls, submitted, causes, edits, asks>>
    BY <1>1 DEF reset_form
  <2>2. slice' \in Slice /\ upload' \in [extract : BOOLEAN, form : Form \union {NoForm}]
    BY <1>0, <2>1 DEF Slice
  <2> QED
    BY <1>0, <2>1, <2>2, StayTyped DEF Rest
<1>2. CASE reset_extract
  <2>1. /\ upload' = [upload EXCEPT !.extract = FALSE]
        /\ values' = [values EXCEPT !.customDataExtractUpload = FALSE]
        /\ slice' = [slice EXCEPT !.dataExtractGeojson = None]
        /\ UNCHANGED <<page, visited, calls, submitted, causes, edits, asks>>
    BY <1>2 DEF reset_extract
  <2>2. slice' \in Slice /\ upload' \in [extract : BOOLEAN, form : Form \union {NoForm}]
        /\ values' \in Details
    BY <1>0, <2>1 DEF Slice, Details
  <2> QED
    BY <1>0, <2>1, <2>2, StayTyped DEF Rest
<1>3. ASSUME NEW f \in Form, upload_form(f) PROVE WizardTypeOK'
  <2>1. /\ Edit(TRUE) /\ upload' = [upload EXCEPT !.form = f]
        /\ slice' = [slice EXCEPT !.customFileValidity = FALSE, !.validateCustomFormLoading = TRUE]
        /\ calls' = calls \union {[kind |-> "validate", form |-> f]}
        /\ UNCHANGED <<page, visited, values, submitted, causes, asks>>
    BY <1>3 DEF upload_form
  <2>2. slice' \in Slice /\ upload' \in [extract : BOOLEAN, form : Form \union {NoForm}]
    BY <1>0, <2>1 DEF Slice
  <2>3. edits' \in 0..MaxEdits
    BY <2>1, EditTyped
  <2>4. calls' \subseteq Call
    BY <1>0, <2>1 DEF Call
  <2> QED
    BY <1>0, <2>1, <2>2, <2>3, <2>4, StayTyped DEF Rest
<1>4. ASSUME NEW good \in BOOLEAN, upload_extract(good) PROVE WizardTypeOK'
  <2>1. /\ Edit(TRUE) /\ upload' = [upload EXCEPT !.extract = TRUE]
        /\ values' = [values EXCEPT !.customDataExtractUpload = good]
        /\ slice' = [slice EXCEPT !.dataExtractGeojson =
                       IF good THEN [way |-> "custom_data_extract"] ELSE None]
        /\ UNCHANGED <<page, visited, calls, submitted, causes, asks>>
    BY <1>4 DEF upload_extract
  <2>2. upload' \in [extract : BOOLEAN, form : Form \union {NoForm}]
        /\ values' \in Details
    BY <1>0, <2>1 DEF Details
  <2>3. edits' \in 0..MaxEdits
    BY <2>1, EditTyped
  <2>4. (IF good THEN [way |-> "custom_data_extract"] ELSE None) \in Extract \union {None}
    BY DEF Extract
  <2>5. slice' \in Slice
    BY <1>0, <2>1, <2>4 DEF Slice
  <2> QED
    BY <1>0, <2>1, <2>2, <2>3, <2>5, StayTyped DEF Rest
<1> QED
  BY <1>1, <1>2, <1>3, <1>4

LEMMA AskTyped ==
  ASSUME WizardTypeOK, generateDataExtract \/ generateTaskBasedOnSelection
  PROVE  WizardTypeOK'
<1>0. slice \in Slice /\ values \in Details /\ calls \subseteq Call /\ Rest
      /\ upload \in [extract : BOOLEAN, form : Form \union {NoForm}]
  BY DEF WizardTypeOK, Rest
<1>a. asks \in 0..MaxAsks /\ MaxAsks \in Nat
  BY WizardAssumption DEF WizardTypeOK
<1>1. ASSUME asks < MaxAsks, asks' = asks + 1 PROVE asks' \in 0..MaxAsks
  BY <1>1, <1>a
<1>2. CASE generateDataExtract
  <2> DEFINE c == [kind |-> "extract", area |-> slice.drawnGeojson, values |-> values,
                   category |-> slice.projectDetails.formCategorySelection]
  <2>1. /\ upload' = [upload EXCEPT !.extract = FALSE]
        /\ slice' = [slice EXCEPT !.dataExtractGeojson = None, !.isFgbFetching = TRUE]
        /\ calls' = calls \union {c}
        /\ slice.drawnGeojson # NoArea /\ slice.projectDetails.formCategorySelection # None
        /\ UNCHANGED <<page, visited, values, submitted, causes, edits>>
    BY <1>2 DEF generateDataExtract
  <2>2. slice' \in Slice /\ upload' \in [extract : BOOLEAN, form : Form \union {NoForm}]
    BY <1>0, <2>1 DEF Slice
  <2>3. asks' \in 0..MaxAsks
    BY <1>1, <1>2 DEF generateDataExtract
  <2>4. slice.drawnGeojson \in Area /\ slice.projectDetails.formCategorySelection \in Category
    BY <1>0, <2>1 DEF Slice, Details
  <2>5. c \in Call
    BY <1>0, <2>4 DEF Call
  <2>6. calls' \subseteq Call
    BY <1>0, <2>1, <2>5
  <2> QED
    BY <1>0, <2>1, <2>2, <2>3, <2>6, StayTyped DEF Rest
<1>3. CASE generateTaskBasedOnSelection
  <2> DEFINE m == slice.taskSplittingMethod
             c == [kind |-> m, area |-> slice.drawnGeojson]
             s == [slice EXCEPT !.loading[m] = TRUE]
  <2>1. /\ m \in Split /\ slice.drawnGeojson # NoArea
        /\ Save(s, values)
        /\ calls' = calls \union {c}
        /\ UNCHANGED <<page, visited, upload, submitted, causes, edits>>
    BY <1>3 DEF generateTaskBasedOnSelection
  <2>2. asks' \in 0..MaxAsks
    BY <1>1, <1>3 DEF generateTaskBasedOnSelection
  <2>3. slice.drawnGeojson \in Area
    BY <1>0, <2>1 DEF Slice
  <2>4. c \in Call
    BY <2>1, <2>3 DEF Call
  <2>5. s \in Slice
    BY <1>0, <2>1 DEF Slice
  <2>6. slice' \in Slice /\ values' = values
    <3> HIDE DEF s
    <3> QED
      BY <1>0, <2>1, <2>5 DEF Save, Slice
  <2>7. calls' \subseteq Call
    BY <1>0, <2>1, <2>4
  <2> QED
    BY <1>0, <2>1, <2>2, <2>6, <2>7, StayTyped DEF Rest
<1> QED
  BY <1>2, <1>3

\* What a submission sends: all of it is there.
LEMMA SubmissionTyped ==
  ASSUME WizardTypeOK, submission
  PROVE  WizardTypeOK'
<1>0. slice \in Slice /\ values \in Details /\ calls \subseteq Call /\ Rest
      /\ upload \in [extract : BOOLEAN, form : Form \union {NoForm}]
  BY DEF WizardTypeOK, Rest
<1> DEFINE s == [slice EXCEPT !.projectDetailsLoading = TRUE, !.canSwitchCreateProjectSteps = TRUE]
           c == [kind |-> "create"]
<1>1. /\ slice.drawnGeojson # NoArea /\ checkTasksGeneration /\ Save(s, values)
      /\ submitted' = [drawnGeojson |-> slice.drawnGeojson, projectDetails |-> values,
                       upload |-> upload.extract, form |-> upload.form,
                       shown |-> slice.dataExtractGeojson, method |-> slice.taskSplittingMethod,
                       tasks |-> slice.dividedTaskGeojson]
      /\ calls' = calls \union {c}
      /\ UNCHANGED <<page, visited, upload, causes, edits, asks>>
  BY DEF submission
<1>2. slice.taskSplittingMethod \in Method
  BY <1>1 DEF checkTasksGeneration, Method
<1>3. slice.drawnGeojson \in Area
  BY <1>0, <1>1 DEF Slice
<1>4. submitted' \in Submission
  BY <1>0, <1>1, <1>2, <1>3, SliceFields DEF Submission
<1>5. s \in Slice
  BY <1>0 DEF Slice
<1>6. slice' \in Slice /\ values' = values
  <2> HIDE DEF s
  <2> QED
    BY <1>0, <1>1, <1>5 DEF Save, Slice
<1>7. calls' \subseteq Call
  BY <1>0, <1>1 DEF Call
<1> QED
  BY <1>0, <1>1, <1>4, <1>6, <1>7, StayTyped DEF Rest

LEMMA NavigationTyped ==
  ASSUME WizardTypeOK, NEW p \in Page, navigate(p)
  PROVE  WizardTypeOK'
<1>0. slice \in Slice /\ values \in Details /\ calls \subseteq Call /\ Rest /\ visited \subseteq Page
  BY DEF WizardTypeOK, Rest
<1>1. /\ Edit(TRUE) /\ page' = p /\ visited' = visited \union {p} /\ slice' = Mount(p, slice)
      /\ values' = slice.projectDetails /\ calls' = calls \union MountCalls(p, slice)
      /\ causes' = causes \union {"jumped"} /\ UNCHANGED <<upload, submitted, asks>>
  BY DEF navigate
<1>2. slice' \in Slice
  BY <1>0, <1>1, Mounted
<1>3. values' \in Details
  BY <1>0, <1>1, SliceFields
<1>4. edits' \in 0..MaxEdits
  BY <1>1, EditTyped
<1>5. calls' \subseteq Call
  BY <1>0, <1>1, MountCallsTyped
<1>6. visited' \subseteq Page /\ page' \in Page
  BY <1>0, <1>1
<1> QED
  BY <1>0, <1>1, <1>2, <1>3, <1>4, <1>5, <1>6 DEF WizardTypeOK, Rest

\* An answer of a kind.
LEMMA Answers ==
  ASSUME WizardTypeOK, NEW c \in calls
  PROVE  /\ c.kind = "extract" => c.area \in Area /\ c.category \in Category /\ c.values \in Details
         /\ c.kind \in Split => c.area \in Area
<1>1. c \in Call
  BY DEF WizardTypeOK
<1>2. CASE c \in [kind : {"extract"}, area : Area, category : Category, values : Details]
  BY <1>2 DEF Split
<1>3. CASE c \in [kind : Split, area : Area]
  BY <1>3 DEF Split
<1>4. CASE c \in [kind : {"validate"}, form : Form] \union [kind : {"create"}]
  BY <1>4 DEF Split
<1> QED
  BY <1>1, <1>2, <1>3, <1>4 DEF Call

Found(c) == [way |-> "osm_data_extract", area |-> c.area, category |-> c.category]

LEMMA ExtractAnswer ==
  ASSUME WizardTypeOK, NEW c \in calls, extract_answer(c)
  PROVE  /\ c.kind = "extract" /\ Found(c) \in Extract /\ slice' \in Slice /\ values' \in Details
         /\ UNCHANGED <<upload, submitted>>
         /\ slice'.drawnGeojson = slice.drawnGeojson
         /\ slice'.dividedTaskGeojson = slice.dividedTaskGeojson
         /\ slice'.taskSplittingMethod = slice.taskSplittingMethod
         /\ slice'.isTasksSplit = slice.isTasksSplit
         /\ slice'.customFileValidity = slice.customFileValidity
         /\ \/ /\ values'.data_extract_url = Found(c) /\ slice'.dataExtractGeojson = Found(c)
               /\ values'.formCategorySelection = c.values.formCategorySelection
               /\ values'.custom_form = c.values.custom_form
               /\ slice'.projectDetails = values'
            \/ /\ values'.data_extract_url = Found(c)
               /\ slice'.dataExtractGeojson = slice.dataExtractGeojson
               /\ values'.formCategorySelection = c.values.formCategorySelection
               /\ values'.custom_form = c.values.custom_form
               /\ values'.dataExtractWays = c.values.dataExtractWays
               /\ slice'.projectDetails = values'
            \/ /\ slice'.dataExtractGeojson = slice.dataExtractGeojson /\ values' = values
               /\ slice'.projectDetails = slice.projectDetails
<1>0. slice \in Slice /\ values \in Details
  BY DEF WizardTypeOK
<1>1. PICK e : e = Found(c)
  OBVIOUS
<1>2. PICK details : details = [c.values EXCEPT !.data_extract_url = e, !.customDataExtractUpload = FALSE]
  OBVIOUS
<1>3. c.kind = "extract" /\ UNCHANGED <<upload, submitted>>
  BY DEF extract_answer
<1>4. e \in Extract
  BY <1>1, <1>3, Answers DEF Found, Extract
<1>5. /\ details \in Details /\ details.data_extract_url = e
      /\ details.formCategorySelection = c.values.formCategorySelection
      /\ details.custom_form = c.values.custom_form
      /\ details.dataExtractWays = c.values.dataExtractWays
  BY <1>2, <1>3, <1>4, Answers DEF Details
<1>6. \/ /\ slice' = [slice EXCEPT !.isFgbFetching = FALSE, !.dataExtractGeojson = e,
                                  !.projectDetails = details]
         /\ values' = details
      \/ /\ slice' = [slice EXCEPT !.isFgbFetching = FALSE, !.projectDetails = details]
         /\ values' = details
      \/ slice' = [slice EXCEPT !.isFgbFetching = FALSE] /\ values' = values
  BY <1>1, <1>2 DEF extract_answer, Save, Found
<1>7. CASE /\ slice' = [slice EXCEPT !.isFgbFetching = FALSE, !.dataExtractGeojson = e,
                                     !.projectDetails = details]
           /\ values' = details
  <2>1. slice' \in Slice
    BY <1>0, <1>4, <1>5, <1>7 DEF Slice
  <2> QED
    BY <1>0, <1>1, <1>3, <1>4, <1>5, <1>7, <2>1 DEF Slice
<1>8. CASE /\ slice' = [slice EXCEPT !.isFgbFetching = FALSE, !.projectDetails = details]
           /\ values' = details
  <2>1. slice' \in Slice
    BY <1>0, <1>4, <1>5, <1>8 DEF Slice
  <2> QED
    BY <1>0, <1>1, <1>3, <1>4, <1>5, <1>8, <2>1 DEF Slice
<1>9. CASE slice' = [slice EXCEPT !.isFgbFetching = FALSE] /\ values' = values
  <2>1. slice' \in Slice
    BY <1>0, <1>9 DEF Slice
  <2> QED
    BY <1>0, <1>1, <1>3, <1>4, <1>9, <2>1 DEF Slice
<1> QED
  BY <1>6, <1>7, <1>8, <1>9

LEMMA SplitAnswer ==
  ASSUME WizardTypeOK, NEW c \in calls, split_answer(c)
  PROVE  /\ c.kind \in Split /\ slice' \in Slice /\ UNCHANGED <<values, upload, submitted>>
         /\ slice'.drawnGeojson = slice.drawnGeojson
         /\ slice'.dataExtractGeojson = slice.dataExtractGeojson
         /\ slice'.projectDetails = slice.projectDetails
         /\ slice'.taskSplittingMethod = slice.taskSplittingMethod
         /\ slice'.customFileValidity = slice.customFileValidity
         /\ \/ /\ slice'.isTasksSplit = [m \in Split |-> m = c.kind]
               /\ slice'.dividedTaskGeojson = [area |-> c.area, method |-> c.kind]
            \/ /\ slice'.isTasksSplit = slice.isTasksSplit
               /\ slice'.dividedTaskGeojson = slice.dividedTaskGeojson
<1>0. slice \in Slice
  BY DEF WizardTypeOK
<1>1. c.kind \in Split /\ c.area \in Area /\ UNCHANGED <<values, upload, submitted>>
  BY Answers DEF split_answer
<1>2. PICK s : s = [slice EXCEPT !.loading[c.kind] = FALSE]
  OBVIOUS
<1>3. PICK f : f = [m \in Split |-> m = c.kind]
  OBVIOUS
<1>4. f \in [Split -> BOOLEAN]
  BY <1>3
<1>5. s \in Slice /\ s = [slice EXCEPT !.loading = [slice.loading EXCEPT ![c.kind] = FALSE]]
  BY <1>0, <1>1, <1>2 DEF Slice
<1>6. \/ slice' = [s EXCEPT !.isTasksSplit = f, !.dividedTaskGeojson = [area |-> c.area, method |-> c.kind]]
      \/ slice' = s
  BY <1>2, <1>3 DEF split_answer
<1>b. PICK d : d = [area |-> c.area, method |-> c.kind]
  OBVIOUS
<1>c. d \in [area : Area, method : Split] \union {None}
  BY <1>1, <1>b
<1>7. slice' \in Slice
  <2>1. CASE slice' = [s EXCEPT !.isTasksSplit = f, !.dividedTaskGeojson = d]
    BY <1>4, <1>5, <1>c, <2>1 DEF Slice
  <2> QED
    BY <1>5, <1>6, <1>b, <2>1
<1>8. /\ s.drawnGeojson = slice.drawnGeojson
      /\ s.dataExtractGeojson = slice.dataExtractGeojson
      /\ s.projectDetails = slice.projectDetails
      /\ s.taskSplittingMethod = slice.taskSplittingMethod
      /\ s.customFileValidity = slice.customFileValidity
      /\ s.isTasksSplit = slice.isTasksSplit
      /\ s.dividedTaskGeojson = slice.dividedTaskGeojson
  BY <1>0, <1>5 DEF Slice
<1>9. CASE slice' = [s EXCEPT !.isTasksSplit = f, !.dividedTaskGeojson = [area |-> c.area, method |-> c.kind]]
  <2>1. /\ slice'.drawnGeojson = s.drawnGeojson
        /\ slice'.dataExtractGeojson = s.dataExtractGeojson
        /\ slice'.projectDetails = s.projectDetails
        /\ slice'.taskSplittingMethod = s.taskSplittingMethod
        /\ slice'.customFileValidity = s.customFileValidity
        /\ slice'.isTasksSplit = f
        /\ slice'.dividedTaskGeojson = [area |-> c.area, method |-> c.kind]
    BY <1>5, <1>9 DEF Slice
  <2> QED
    BY <1>1, <1>3, <1>7, <1>8, <2>1
<1> QED
  BY <1>1, <1>6, <1>7, <1>8, <1>9

LEMMA TruthValue ==
  ASSUME NEW x, NEW V, NEW ok, ok = (x \in V)
  PROVE  ok \in BOOLEAN /\ (ok => x \in V)
<1>1. (x \in V) \in BOOLEAN
  BY SMT
<1>2. ok \in BOOLEAN
  BY <1>1, Zenon
<1>3. ok => x \in V
  BY Zenon
<1> QED
  BY <1>2, <1>3

LEMMA FormAnswer ==
  ASSUME WizardTypeOK, NEW c \in calls, ValidateCustomForm(c)
  PROVE  /\ slice' \in Slice /\ UNCHANGED <<values, upload, submitted>>
         /\ slice'.drawnGeojson = slice.drawnGeojson
         /\ slice'.dataExtractGeojson = slice.dataExtractGeojson
         /\ slice'.projectDetails = slice.projectDetails
         /\ slice'.dividedTaskGeojson = slice.dividedTaskGeojson
         /\ slice'.taskSplittingMethod = slice.taskSplittingMethod
         /\ slice'.isTasksSplit = slice.isTasksSplit
         /\ slice'.customFileValidity => c.form \in ValidForm
<1>0. slice \in Slice
  BY DEF WizardTypeOK
<1>1. UNCHANGED <<values, upload, submitted>>
  BY DEF ValidateCustomForm
<1>2. PICK ok : /\ slice' = [slice EXCEPT !.customFileValidity = ok, !.validateCustomFormLoading = FALSE]
                /\ ok = (c.form \in ValidForm)
  BY Zenon DEF ValidateCustomForm
<1>3. ok \in BOOLEAN /\ (ok => c.form \in ValidForm)
  BY <1>2, TruthValue
<1> QED
  BY <1>0, <1>1, <1>2, <1>3 DEF Slice

\* The project has been made, and the wizard is cleared, or it has not.
LEMMA SubmissionAnswer ==
  ASSUME WizardTypeOK, NEW c, submission_answer(c)
  PROVE  /\ slice' \in Slice /\ submitted' = None /\ causes' = causes
         /\ \/ /\ UNCHANGED <<page, visited, values, upload>>
               /\ slice'.drawnGeojson = slice.drawnGeojson
               /\ slice'.dataExtractGeojson = slice.dataExtractGeojson
               /\ slice'.projectDetails = slice.projectDetails
               /\ slice'.dividedTaskGeojson = slice.dividedTaskGeojson
               /\ slice'.taskSplittingMethod = slice.taskSplittingMethod
               /\ slice'.isTasksSplit = slice.isTasksSplit
               /\ slice'.customFileValidity = slice.customFileValidity
            \/ /\ page' = "create-project" /\ visited' = {"create-project"}
               /\ values' = NoDetails /\ upload' = NoUpload
               /\ slice'.dataExtractGeojson = None /\ slice'.projectDetails = NoDetails
               /\ slice'.dividedTaskGeojson = None /\ slice'.drawnGeojson = NoArea
<1>0. slice \in Slice /\ NoDetails \in Details
  BY DEF WizardTypeOK, NoDetails, Details
<1>1. submitted' = None /\ causes' = causes
  BY DEF submission_answer
<1>2. \/ /\ slice' = [slice EXCEPT !.projectDetailsLoading = FALSE]
         /\ UNCHANGED <<page, visited, values, upload>>
      \/ /\ slice' = [slice EXCEPT !.projectDetailsLoading = FALSE, !.projectDetails = NoDetails,
              !.drawnGeojson = NoArea, !.dataExtractGeojson = None, !.dividedTaskGeojson = None,
              !.taskSplittingMethod = None, !.canSwitchCreateProjectSteps = FALSE,
              !.loading["DIVIDE_ON_SQUARE"] = FALSE]
         /\ page' = "create-project" /\ visited' = {"create-project"}
         /\ values' = NoDetails /\ upload' = NoUpload
  BY DEF submission_answer
<1>3. CASE /\ slice' = [slice EXCEPT !.projectDetailsLoading = FALSE]
           /\ UNCHANGED <<page, visited, values, upload>>
  BY <1>0, <1>1, <1>3 DEF Slice
<1>4. CASE /\ slice' = [slice EXCEPT !.projectDetailsLoading = FALSE, !.projectDetails = NoDetails,
              !.drawnGeojson = NoArea, !.dataExtractGeojson = None, !.dividedTaskGeojson = None,
              !.taskSplittingMethod = None, !.canSwitchCreateProjectSteps = FALSE,
              !.loading["DIVIDE_ON_SQUARE"] = FALSE]
           /\ page' = "create-project" /\ visited' = {"create-project"}
           /\ values' = NoDetails /\ upload' = NoUpload
  <2>1. PICK f : f = [slice.loading EXCEPT !["DIVIDE_ON_SQUARE"] = FALSE]
    OBVIOUS
  <2>2. f \in [Split -> BOOLEAN]
    BY <1>0, <2>1 DEF Slice
  <2>3. slice' = [slice EXCEPT !.projectDetailsLoading = FALSE, !.projectDetails = NoDetails,
              !.drawnGeojson = NoArea, !.dataExtractGeojson = None, !.dividedTaskGeojson = None,
              !.taskSplittingMethod = None, !.canSwitchCreateProjectSteps = FALSE, !.loading = f]
    BY <1>0, <1>4, <2>1 DEF Slice
  <2>4. slice' \in Slice /\ slice'.dataExtractGeojson = None /\ slice'.projectDetails = NoDetails
        /\ slice'.dividedTaskGeojson = None /\ slice'.drawnGeojson = NoArea
    BY <1>0, <2>2, <2>3 DEF Slice
  <2> QED
    BY <1>1, <1>4, <2>4
<1> QED
  BY <1>2, <1>3, <1>4

LEMMA AnswerTyped ==
  ASSUME WizardTypeOK, NEW c \in calls, answer(c)
  PROVE  WizardTypeOK'
<1>0. /\ Rest /\ calls' \subseteq Call /\ edits' = edits /\ asks' = asks
  BY DEF answer, WizardTypeOK, Rest
<1>1. CASE extract_answer(c) /\ UNCHANGED <<page, visited>>
  <2>1. Blame(\/ slice.drawnGeojson # c.area \/ page # "map-data"
              \/ [values EXCEPT !.data_extract_url = c.values.data_extract_url] # c.values, "late")
    BY <1>1 DEF extract_answer
  <2>2. causes' \subseteq {"replaced", "late", "jumped", "other source"}
    BY <2>1, BlameTyped
  <2>3. slice' \in Slice /\ values' \in Details /\ UNCHANGED <<upload, submitted>>
    BY <1>1, ExtractAnswer
  <2> QED
    BY <1>0, <1>1, <2>2, <2>3, StayTyped DEF Rest
<1>2. CASE split_answer(c) /\ UNCHANGED <<page, visited>>
  <2>1. Blame(slice.drawnGeojson # c.area \/ slice.taskSplittingMethod # c.kind, "late")
    BY <1>2 DEF split_answer
  <2>2. causes' \subseteq {"replaced", "late", "jumped", "other source"}
    BY <2>1, BlameTyped
  <2>3. slice' \in Slice /\ UNCHANGED <<values, upload, submitted>> /\ values \in Details
    BY <1>2, SplitAnswer DEF WizardTypeOK
  <2> QED
    BY <1>0, <1>2, <2>2, <2>3, StayTyped DEF Rest
<1>3. CASE ValidateCustomForm(c) /\ UNCHANGED <<page, visited>>
  <2>1. Blame(upload.form # c.form, "late")
    BY <1>3 DEF ValidateCustomForm
  <2>2. causes' \subseteq {"replaced", "late", "jumped", "other source"}
    BY <2>1, BlameTyped
  <2>3. slice' \in Slice /\ UNCHANGED <<values, upload, submitted>> /\ values \in Details
    BY <1>3, FormAnswer DEF WizardTypeOK
  <2> QED
    BY <1>0, <1>3, <2>2, <2>3, StayTyped DEF Rest
<1>4. CASE submission_answer(c)
  <2>1. /\ slice' \in Slice /\ submitted' = None /\ causes' = causes
        /\ \/ UNCHANGED <<page, visited, values, upload>>
           \/ /\ page' = "create-project" /\ visited' = {"create-project"}
              /\ values' = NoDetails /\ upload' = NoUpload
    BY <1>4, SubmissionAnswer
  <2>2. /\ NoDetails \in Details /\ NoUpload \in [extract : BOOLEAN, form : Form \union {NoForm}]
        /\ page \in Page /\ visited \subseteq Page /\ values \in Details
    BY DEF NoDetails, Details, NoUpload, WizardTypeOK
  <2>3. /\ page' \in Page /\ visited' \subseteq Page /\ values' \in Details
        /\ upload' \in [extract : BOOLEAN, form : Form \union {NoForm}]
    BY <1>0, <2>1, <2>2 DEF Page, Rest
  <2> QED
    BY <1>0, <2>1, <2>3 DEF WizardTypeOK, Rest
<1> QED
  BY <1>1, <1>2, <1>3, <1>4 DEF answer

LEMMA WizardTypeStep ==
  ASSUME WizardTypeOK, [WizardNext]_wizardVars
  PROVE  WizardTypeOK'
<1>1. CASE ProjectDetailsForm \/ UploadArea \/ SelectForm \/ DataExtract \/ previous_SplitTasks
  BY <1>1, PagesTyped
<1>2. ASSUME NEW a \in Area \union {NoArea}, (a \in Area /\ draw(a)) \/ upload_area(a) \/ change_area(a)
      PROVE  WizardTypeOK'
  BY <1>2, AreaTyped
<1>3. CASE \/ form_ways \/ \E c \in Category : select_category(c)
           \/ \E way \in {"osm_data_extract", "custom_data_extract"} : extract_way(way)
           \/ \E m \in Method : splitting_method(m)
  BY <1>3, ChoiceTyped
<1>4. CASE \/ reset_form \/ reset_extract \/ \E f \in Form : upload_form(f)
           \/ \E good \in BOOLEAN : upload_extract(good)
  BY <1>4, FileTyped
<1>5. CASE generateDataExtract \/ generateTaskBasedOnSelection
  BY <1>5, AskTyped
<1>6. CASE submission
  BY <1>6, SubmissionTyped
<1>7. ASSUME NEW p \in Page, navigate(p) PROVE WizardTypeOK'
  BY <1>7, NavigationTyped
<1>8. ASSUME NEW c \in calls, answer(c) PROVE WizardTypeOK'
  BY <1>8, AnswerTyped
<1>9. CASE UNCHANGED wizardVars
  BY <1>9 DEF wizardVars, WizardTypeOK
<1> QED
  BY <1>1, <1>2, <1>3, <1>4, <1>5, <1>6, <1>7, <1>8, <1>9 DEF WizardNext

LEMMA WizardTypeStart == WizardInit => WizardTypeOK
<1> SUFFICES ASSUME WizardInit PROVE WizardTypeOK
  OBVIOUS
<1>1. NoDetails \in Details /\ NoUpload \in [extract : BOOLEAN, form : Form \union {NoForm}]
  BY DEF NoDetails, Details, NoUpload
<1>2. slice \in Slice
  BY <1>1 DEF WizardInit, Slice
<1>3. /\ page \in Page /\ visited \subseteq Page /\ values \in Details
      /\ calls = {} /\ submitted = None /\ causes = {} /\ edits = 0 /\ asks = 0
      /\ upload \in [extract : BOOLEAN, form : Form \union {NoForm}]
  BY <1>1 DEF WizardInit, Page
<1> QED
  BY <1>2, <1>3, WizardAssumption DEF WizardTypeOK

\* Every variable keeps its type: what is submitted has an outline, and a method if it has tasks.
THEOREM WizardTypeCorrect == WizardSpec => []WizardTypeOK
<1>1. WizardInit => WizardTypeOK
  BY WizardTypeStart
<1>2. WizardTypeOK /\ [WizardNext]_wizardVars => WizardTypeOK'
  BY WizardTypeStep
<1> QED
  BY <1>1, <1>2, PTL DEF WizardSpec
-----------------------------------------------------------------------------
(* What is submitted belongs together. *)

Whole == WizardTypeOK /\ Parts /\ SubmissionConsistent

\* A step that sends nothing keeps what has been sent.
LEMMA SentStays ==
  ASSUME SubmissionConsistent, submitted' = submitted \/ submitted' = None, causes \subseteq causes'
  PROVE  SubmissionConsistent'
<1>1. causes' = {} => causes = {}
  OBVIOUS
<1>2. CASE submitted' = None
  BY <1>2 DEF SubmissionConsistent
<1>3. CASE submitted' = submitted
  BY <1>1, <1>3 DEF SubmissionConsistent
<1> QED
  BY <1>2, <1>3

\* From one page to the next.
LEMMA GoParts ==
  ASSUME WizardTypeOK, Parts, NEW p \in Page, Go(p, values), upload' = upload,
         causes \subseteq causes',
         causes' = {} /\ p \in {"map-data", "split-tasks"} /\ values.custom_form =>
           upload.form \in ValidForm,
         causes' = {} /\ p = "split-tasks" =>
           Fetched # None /\ Fetched.way = values.dataExtractWays
  PROVE  Parts'
<1>1. values \in Details
  BY DEF WizardTypeOK
<1>2. /\ page' = p /\ values' = values /\ slice'.projectDetails = values
      /\ Fetched' = Fetched /\ slice'.drawnGeojson = slice.drawnGeojson
      /\ Divided' \in {Divided, None}
      /\ slice'.taskSplittingMethod = slice.taskSplittingMethod
      /\ slice'.isTasksSplit = slice.isTasksSplit
      /\ slice'.customFileValidity = slice.customFileValidity
      /\ \A c \in calls' : c.kind = "extract" => c \in calls
  BY <1>1, Gone DEF Fetched, Divided
<1>3. Asked'
  BY <1>2 DEF Parts, Asked
<1>4. Uploaded'
  BY <1>2 DEF Parts, Uploaded
<1>5. Consistent'
  <2> SUFFICES ASSUME causes' = {} PROVE ExtractFits' /\ FormFits' /\ TasksFit'
    BY DEF Consistent
  <2>1. ExtractFits /\ FormFits /\ TasksFit
    BY DEF Parts, Consistent
  <2>2. ExtractFits'
    BY <1>2, <2>1 DEF ExtractFits
  <2>3. FormFits'
    BY <1>2, <2>1 DEF FormFits
  <2>4. TasksFit'
    BY <1>2, <2>1 DEF TasksFit
  <2> QED
    BY <2>2, <2>3, <2>4
<1> QED
  BY <1>3, <1>4, <1>5 DEF Parts

LEMMA PagesWhole ==
  ASSUME Whole,
         ProjectDetailsForm \/ UploadArea \/ SelectForm \/ DataExtract \/ previous_SplitTasks
  PROVE  Parts' /\ SubmissionConsistent'
<1>0. WizardTypeOK /\ Parts /\ SubmissionConsistent
  BY DEF Whole
<1>1. CASE ProjectDetailsForm
  <2>1. Go("project-area", values) /\ UNCHANGED <<upload, submitted, causes>>
    BY <1>1 DEF ProjectDetailsForm
  <2> QED
    BY <1>0, <2>1, GoParts, SentStays DEF Page
<1>2. CASE UploadArea
  <2>1. /\ Go("upload-survey", values) \/ Go("create-project", values)
        /\ UNCHANGED <<upload, submitted, causes>>
    BY <1>2 DEF UploadArea
  <2> QED
    BY <1>0, <2>1, GoParts, SentStays DEF Page
<1>3. CASE SelectForm
  <2>0. UNCHANGED <<upload, submitted, causes>>
    BY <1>3 DEF SelectForm
  <2>1. SubmissionConsistent'
    BY <1>0, <2>0, SentStays
  <2>2. CASE Go("project-area", values)
    BY <1>0, <2>0, <2>1, <2>2, GoParts DEF Page
  <2>3. CASE /\ values.custom_form => slice.customFileValidity /\ upload.form # NoForm
             /\ Go("map-data", values)
    <3>1. causes' = {} /\ values.custom_form => upload.form \in ValidForm
      BY <1>0, <2>0, <2>3 DEF Parts, Consistent, FormFits
    <3> QED
      BY <1>0, <2>0, <2>1, <2>3, <3>1, GoParts DEF Page
  <2>4. CASE Save(slice, values) /\ UNCHANGED <<page, visited, calls>>
    <3>1. /\ Fetched' = Fetched /\ slice'.drawnGeojson = slice.drawnGeojson
          /\ Divided' = Divided /\ slice'.projectDetails = values
          /\ slice'.taskSplittingMethod = slice.taskSplittingMethod
          /\ slice'.isTasksSplit = slice.isTasksSplit
          /\ slice'.customFileValidity = slice.customFileValidity
          /\ values' = values
      BY <1>0, <2>4 DEF WizardTypeOK, Slice, Save, Fetched, Divided
    <3>2. Asked' /\ Uploaded'
      BY <1>0, <2>0, <2>4, <3>1 DEF Parts, Asked, Uploaded
    <3>3. Consistent'
      BY <1>0, <2>0, <2>4, <3>1 DEF Parts, Consistent, ExtractFits, FormFits, TasksFit
    <3> QED
      BY <2>1, <3>2, <3>3 DEF Parts
  <2> QED
    BY <1>3, <2>2, <2>3, <2>4 DEF SelectForm
<1>4. CASE DataExtract
  <2>0. page = "map-data" /\ UNCHANGED <<upload, submitted>>
    BY <1>4 DEF DataExtract
  <2>1. CASE /\ slice.dataExtractGeojson # None
             /\ Go("split-tasks", values)
             /\ Blame(slice.dataExtractGeojson.way # values.dataExtractWays, "other source")
    <3>1. causes \subseteq causes' /\ (causes' = {} => Fetched.way = values.dataExtractWays)
      BY <1>0, <2>1, BlameTyped DEF Fetched
    <3>2. causes' = {} /\ values.custom_form => upload.form \in ValidForm
      BY <1>0, <2>0, <3>1 DEF Parts, Consistent, FormFits
    <3>3. Parts'
      BY <1>0, <2>0, <2>1, <3>1, <3>2, GoParts DEF Page, Fetched
    <3> QED
      BY <1>0, <2>0, <3>1, <3>3, SentStays
  <2>2. CASE Go("upload-survey", values) /\ UNCHANGED causes
    BY <1>0, <2>0, <2>2, GoParts, SentStays DEF Page
  <2> QED
    BY <1>4, <2>1, <2>2 DEF DataExtract
<1>5. CASE previous_SplitTasks
  <2>1. page = "split-tasks" /\ Go("map-data", values) /\ UNCHANGED <<upload, submitted, causes>>
    BY <1>5 DEF previous_SplitTasks
  <2>2. causes' = {} /\ values.custom_form => upload.form \in ValidForm
    BY <1>0, <2>1 DEF Parts, Consistent, FormFits
  <2> QED
    BY <1>0, <2>1, <2>2, GoParts, SentStays DEF Page
<1> QED
  BY <1>1, <1>2, <1>3, <1>4, <1>5

LEMMA AreaWhole ==
  ASSUME Whole, NEW a \in Area \union {NoArea},
         (a \in Area /\ draw(a)) \/ upload_area(a) \/ change_area(a)
  PROVE  Parts' /\ SubmissionConsistent'
<1>0. WizardTypeOK /\ Parts /\ SubmissionConsistent /\ slice \in Slice /\ values \in Details
      /\ upload \in [extract : BOOLEAN, form : Form \union {NoForm}]
  BY DEF Whole, WizardTypeOK
<1>1. CASE (a \in Area /\ draw(a)) \/ upload_area(a)
  <2>1. /\ slice' = [slice EXCEPT !.drawnGeojson = a] /\ page = "project-area"
        /\ UNCHANGED <<page, values, upload, calls, submitted>>
    BY <1>1 DEF upload_area, draw
  <2>2. causes \subseteq causes'
        /\ (causes' = {} => /\ Divided = None
                            /\ Fetched # None => Fetched.way = "custom_data_extract")
    <3>1. CASE upload_area(a)
      <4>1. Blame(slice.dataExtractGeojson # None \/ slice.dividedTaskGeojson # None, "replaced")
        BY <3>1 DEF upload_area
      <4> QED
        BY <1>0, <4>1, BlameTyped DEF Fetched, Divided
    <3>2. CASE draw(a)
      <4>1. slice.drawnGeojson = NoArea /\ causes' = causes
        BY <3>2 DEF draw
      <4>2. Fetched \in Extract \union {None} /\ Divided \in [area : Area, method : Split] \union {None}
        BY <1>0, SliceFields DEF Fetched, Divided
      <4>3. Divided # None => Divided.area # NoArea
        BY <4>2, WizardAssumption
      <4>4. Fetched # None /\ Fetched.way # "custom_data_extract" =>
              Fetched.way = "osm_data_extract" /\ Fetched.area # NoArea
        BY <4>2, WizardAssumption DEF Extract
      <4> QED
        BY <1>0, <4>1, <4>3, <4>4 DEF Parts, Consistent, ExtractFits, TasksFit
    <3> QED
      BY <1>1, <3>1, <3>2
  <2>3. /\ slice'.projectDetails = slice.projectDetails /\ Fetched' = Fetched /\ Divided' = Divided
        /\ slice'.taskSplittingMethod = slice.taskSplittingMethod
        /\ slice'.customFileValidity = slice.customFileValidity
    BY <1>0, <2>1 DEF Slice, Fetched, Divided
  <2>4. Asked' /\ Uploaded'
    BY <1>0, <2>1, <2>3 DEF Parts, Asked, Uploaded
  <2>5. Consistent'
    BY <1>0, <2>1, <2>2, <2>3 DEF Parts, Consistent, ExtractFits, FormFits, TasksFit
  <2> QED
    BY <1>0, <2>1, <2>2, <2>4, <2>5, SentStays DEF Parts
<1>2. CASE change_area(a)
  <2>1. /\ page = "project-area" /\ upload' = [upload EXCEPT !.extract = FALSE]
        /\ slice' = ClearProjectStepState([slice EXCEPT !.drawnGeojson = a], values)
        /\ UNCHANGED <<page, values, calls, submitted, causes>>
    BY <1>2 DEF change_area
  <2>2. /\ slice'.projectDetails = values /\ Fetched' = None /\ Divided' = None
        /\ slice'.customFileValidity = slice.customFileValidity
        /\ upload'.form = upload.form
    BY <1>0, <2>1 DEF Slice, Fetched, Divided, ClearProjectStepState
  <2>3. Asked' /\ Uploaded'
    BY <1>0, <2>1, <2>2 DEF Parts, Asked, Uploaded
  <2>4. Consistent'
    BY <1>0, <2>1, <2>2 DEF Parts, Consistent, ExtractFits, FormFits, TasksFit
  <2> QED
    BY <1>0, <2>1, <2>3, <2>4, SentStays DEF Parts
<1> QED
  BY <1>1, <1>2

LEMMA ChoiceWhole ==
  ASSUME Whole,
         \/ form_ways \/ \E c \in Category : select_category(c)
         \/ \E way \in {"osm_data_extract", "custom_data_extract"} : extract_way(way)
         \/ \E m \in Method : splitting_method(m)
  PROVE  Parts' /\ SubmissionConsistent'
<1>0. WizardTypeOK /\ Parts /\ SubmissionConsistent /\ slice \in Slice /\ values \in Details
  BY DEF Whole, WizardTypeOK
<1>1. CASE form_ways
  <2>1. /\ page = "upload-survey" /\ values' = [values EXCEPT !.custom_form = ~values.custom_form]
        /\ UNCHANGED <<page, slice, upload, calls, submitted, causes>>
    BY <1>1 DEF form_ways
  <2>2. /\ values'.formCategorySelection = values.formCategorySelection
        /\ values'.data_extract_url = values.data_extract_url
        /\ values'.dataExtractWays = values.dataExtractWays
    BY <1>0, <2>1 DEF Details
  <2>3. Asked' /\ Uploaded'
    BY <1>0, <2>1, <2>2 DEF Parts, Asked, Uploaded, Fetched
  <2>4. Consistent'
    BY <1>0, <2>1, <2>2
       DEF Parts, Consistent, ExtractFits, FormFits, TasksFit, Fetched, Divided
  <2> QED
    BY <1>0, <2>1, <2>3, <2>4, SentStays DEF Parts
<1>2. ASSUME NEW c \in Category, select_category(c) PROVE Parts' /\ SubmissionConsistent'
  <2>1. /\ page = "upload-survey" /\ values' = [values EXCEPT !.formCategorySelection = c]
        /\ slice' = [slice EXCEPT !.dataExtractGeojson = None]
        /\ UNCHANGED <<page, upload, calls, submitted, causes>>
    BY <1>2 DEF select_category
  <2>2. /\ slice'.projectDetails = slice.projectDetails /\ Fetched' = None /\ Divided' = Divided
        /\ slice'.drawnGeojson = slice.drawnGeojson
        /\ slice'.taskSplittingMethod = slice.taskSplittingMethod
        /\ slice'.isTasksSplit = slice.isTasksSplit
        /\ slice'.customFileValidity = slice.customFileValidity
    BY <1>0, <2>1 DEF Slice, Fetched, Divided
  <2>3. Asked' /\ Uploaded'
    BY <1>0, <2>1, <2>2 DEF Parts, Asked, Uploaded
  <2>4. Consistent'
    BY <1>0, <2>1, <2>2 DEF Parts, Consistent, ExtractFits, FormFits, TasksFit
  <2> QED
    BY <1>0, <2>1, <2>3, <2>4, SentStays DEF Parts
<1>3. ASSUME NEW way \in {"osm_data_extract", "custom_data_extract"}, extract_way(way)
      PROVE  Parts' /\ SubmissionConsistent'
  <2>1. /\ page = "map-data" /\ values' = [values EXCEPT !.dataExtractWays = way]
        /\ UNCHANGED <<page, slice, upload, calls, submitted, causes>>
    BY <1>3 DEF extract_way
  <2>2. /\ values'.formCategorySelection = values.formCategorySelection
        /\ values'.data_extract_url = values.data_extract_url
        /\ values'.custom_form = values.custom_form
    BY <1>0, <2>1 DEF Details
  <2>3. Asked' /\ Uploaded'
    BY <1>0, <2>1, <2>2 DEF Parts, Asked, Uploaded, Fetched
  <2>4. Consistent'
    BY <1>0, <2>1, <2>2
       DEF Parts, Consistent, ExtractFits, FormFits, TasksFit, Fetched, Divided
  <2> QED
    BY <1>0, <2>1, <2>3, <2>4, SentStays DEF Parts
<1>4. ASSUME NEW m \in Method, splitting_method(m) PROVE Parts' /\ SubmissionConsistent'
  <2>1. /\ slice' = [slice EXCEPT !.taskSplittingMethod = m,
             !.isTasksSplit = IF m \in Split THEN slice.isTasksSplit ELSE [k \in Split |-> FALSE],
             !.dividedTaskGeojson = IF m \in Split THEN slice.dividedTaskGeojson ELSE None]
        /\ UNCHANGED <<page, values, upload, calls, submitted, causes>>
    BY <1>4 DEF splitting_method
  <2>2. /\ slice'.projectDetails = slice.projectDetails /\ Fetched' = Fetched
        /\ slice'.drawnGeojson = slice.drawnGeojson /\ slice'.taskSplittingMethod = m
        /\ slice'.customFileValidity = slice.customFileValidity
        /\ m \in Split => slice'.isTasksSplit = slice.isTasksSplit /\ Divided' = Divided
        /\ m \notin Split => Divided' = None
    BY <1>0, <2>1 DEF Slice, Fetched, Divided
  <2>3. Asked' /\ Uploaded'
    BY <1>0, <2>1, <2>2 DEF Parts, Asked, Uploaded
  <2>4. ASSUME causes = {} PROVE TasksFit'
    <3>1. TasksFit /\ "CHOOSE_AREA_AS_TASK" \notin Split
      BY <1>0, <2>4 DEF Parts, Consistent, Split
    <3>2. CASE m \in Split
      BY <2>2, <3>1, <3>2 DEF TasksFit
    <3>3. CASE m \notin Split
      BY <2>2, <3>3 DEF TasksFit
    <3> QED
      BY <3>2, <3>3
  <2>5. Consistent'
    BY <1>0, <2>1, <2>2, <2>4 DEF Parts, Consistent, ExtractFits, FormFits
  <2> QED
    BY <1>0, <2>1, <2>3, <2>5, SentStays DEF Parts
<1> QED
  BY <1>1, <1>2, <1>3, <1>4

LEMMA FileWhole ==
  ASSUME Whole,
         \/ reset_form \/ reset_extract \/ \E f \in Form : upload_form(f)
         \/ \E good \in BOOLEAN : upload_extract(good)
  PROVE  Parts' /\ SubmissionConsistent'
<1>0. WizardTypeOK /\ Parts /\ SubmissionConsistent /\ slice \in Slice /\ values \in Details
      /\ upload \in [extract : BOOLEAN, form : Form \union {NoForm}]
  BY DEF Whole, WizardTypeOK
\* A step on the page of the form that leaves none that is known to be valid.
<1>1. ASSUME NEW f, page = "upload-survey", upload' = [upload EXCEPT !.form = f],
             slice'.customFileValidity = FALSE, slice'.projectDetails = slice.projectDetails,
             Fetched' = Fetched, Divided' = Divided, slice'.drawnGeojson = slice.drawnGeojson,
             slice'.taskSplittingMethod = slice.taskSplittingMethod,
             slice'.isTasksSplit = slice.isTasksSplit,
             UNCHANGED <<page, values, submitted, causes>>,
             \A c \in calls' : c.kind = "extract" => c \in calls
      PROVE  Parts' /\ SubmissionConsistent'
  <2>1. Asked' /\ Uploaded'
    BY <1>0, <1>1 DEF Parts, Asked, Uploaded
  <2>2. Consistent'
    BY <1>0, <1>1 DEF Parts, Consistent, ExtractFits, FormFits, TasksFit
  <2> QED
    BY <1>0, <1>1, <2>1, <2>2, SentStays DEF Parts
<1>2. CASE reset_form
  <2>1. /\ page = "upload-survey" /\ upload' = [upload EXCEPT !.form = NoForm]
        /\ slice' = [slice EXCEPT !.customFileValidity = FALSE]
        /\ UNCHANGED <<page, values, calls, submitted, causes>>
    BY <1>2 DEF reset_form
  <2>2. /\ slice'.customFileValidity = FALSE /\ slice'.projectDetails = slice.projectDetails
        /\ Fetched' = Fetched /\ Divided' = Divided /\ slice'.drawnGeojson = slice.drawnGeojson
        /\ slice'.taskSplittingMethod = slice.taskSplittingMethod
        /\ slice'.isTasksSplit = slice.isTasksSplit
    BY <1>0, <2>1 DEF Slice, Fetched, Divided
  <2> QED
    BY <1>1, <2>1, <2>2
<1>3. ASSUME NEW f \in Form, upload_form(f) PROVE Parts' /\ SubmissionConsistent'
  <2>1. /\ page = "upload-survey" /\ upload' = [upload EXCEPT !.form = f]
        /\ slice' = [slice EXCEPT !.customFileValidity = FALSE, !.validateCustomFormLoading = TRUE]
        /\ calls' = calls \union {[kind |-> "validate", form |-> f]}
        /\ UNCHANGED <<page, values, submitted, causes>>
    BY <1>3 DEF upload_form
  <2>2. /\ slice'.customFileValidity = FALSE /\ slice'.projectDetails = slice.projectDetails
        /\ Fetched' = Fetched /\ Divided' = Divided /\ slice'.drawnGeojson = slice.drawnGeojson
        /\ slice'.taskSplittingMethod = slice.taskSplittingMethod
        /\ slice'.isTasksSplit = slice.isTasksSplit
    BY <1>0, <2>1 DEF Slice, Fetched, Divided
  <2>3. \A c \in calls' : c.kind = "extract" => c \in calls
    BY <2>1
  <2> QED
    BY <1>1, <2>1, <2>2, <2>3
\* A step on the page of the map data that replaces the custom extract.
<1>4. ASSUME NEW there \in BOOLEAN, page = "map-data",
             upload' = [upload EXCEPT !.extract = there],
             Fetched' = None \/ (there /\ Fetched' = [way |-> "custom_data_extract"]),
             NEW good \in BOOLEAN, values' = [values EXCEPT !.customDataExtractUpload = good],
             slice'.customFileValidity = slice.customFileValidity,
             slice'.projectDetails = slice.projectDetails, Divided' = Divided,
             slice'.drawnGeojson = slice.drawnGeojson,
             slice'.taskSplittingMethod = slice.taskSplittingMethod,
             slice'.isTasksSplit = slice.isTasksSplit,
             UNCHANGED <<page, calls, submitted, causes>>
      PROVE  Parts' /\ SubmissionConsistent'
  <2>1. /\ upload'.extract = there /\ upload'.form = upload.form
        /\ values'.formCategorySelection = values.formCategorySelection
        /\ values'.custom_form = values.custom_form
    BY <1>0, <1>4 DEF Details
  <2>2. Asked' /\ Uploaded'
    BY <1>0, <1>4, <2>1 DEF Parts, Asked, Uploaded
  <2>3. Consistent'
    <3> SUFFICES ASSUME causes' = {} PROVE ExtractFits' /\ FormFits' /\ TasksFit'
      BY DEF Consistent
    <3>1. ExtractFits /\ FormFits /\ TasksFit
      BY <1>0, <1>4 DEF Parts, Consistent
    <3>2. ExtractFits'
      BY <1>4 DEF ExtractFits
    <3>3. FormFits'
      BY <1>4, <2>1, <3>1 DEF FormFits
    <3>4. TasksFit'
      BY <1>4, <3>1 DEF TasksFit
    <3> QED
      BY <3>2, <3>3, <3>4
  <2> QED
    BY <1>0, <1>4, <2>2, <2>3, SentStays DEF Parts
<1>5. CASE reset_extract
  <2>1. /\ page = "map-data" /\ upload' = [upload EXCEPT !.extract = FALSE]
        /\ values' = [values EXCEPT !.customDataExtractUpload = FALSE]
        /\ slice' = [slice EXCEPT !.dataExtractGeojson = None]
        /\ UNCHANGED <<page, calls, submitted, causes>>
    BY <1>5 DEF reset_extract
  <2>2. /\ Fetched' = None /\ slice'.customFileValidity = slice.customFileValidity
        /\ slice'.projectDetails = slice.projectDetails /\ Divided' = Divided
        /\ slice'.drawnGeojson = slice.drawnGeojson
        /\ slice'.taskSplittingMethod = slice.taskSplittingMethod
        /\ slice'.isTasksSplit = slice.isTasksSplit
    BY <1>0, <2>1 DEF Slice, Fetched, Divided
  <2> QED
    BY <1>4, <2>1, <2>2
<1>6. ASSUME NEW good \in BOOLEAN, upload_extract(good) PROVE Parts' /\ SubmissionConsistent'
  <2>1. /\ page = "map-data" /\ upload' = [upload EXCEPT !.extract = TRUE]
        /\ values' = [values EXCEPT !.customDataExtractUpload = good]
        /\ slice' = [slice EXCEPT !.dataExtractGeojson =
                       IF good THEN [way |-> "custom_data_extract"] ELSE None]
        /\ UNCHANGED <<page, calls, submitted, causes>>
    BY <1>6 DEF upload_extract
  <2>2. PICK e : /\ slice' = [slice EXCEPT !.dataExtractGeojson = e]
                 /\ e = None \/ e = [way |-> "custom_data_extract"]
    BY <2>1
  <2>3. /\ Fetched' = e /\ slice'.customFileValidity = slice.customFileValidity
        /\ slice'.projectDetails = slice.projectDetails /\ Divided' = Divided
        /\ slice'.drawnGeojson = slice.drawnGeojson
        /\ slice'.taskSplittingMethod = slice.taskSplittingMethod
        /\ slice'.isTasksSplit = slice.isTasksSplit
    BY <1>0, <2>2 DEF Slice, Fetched, Divided
  <2> QED
    BY <1>4, <1>6, <2>1, <2>2, <2>3
<1> QED
  BY <1>2, <1>3, <1>5, <1>6

LEMMA AskWhole ==
  ASSUME Whole, generateDataExtract \/ generateTaskBasedOnSelection
  PROVE  Parts' /\ SubmissionConsistent'
<1>0. WizardTypeOK /\ Parts /\ SubmissionConsistent /\ slice \in Slice /\ values \in Details
      /\ upload \in [extract : BOOLEAN, form : Form \union {NoForm}]
  BY DEF Whole, WizardTypeOK
<1>1. CASE generateDataExtract
  <2>1. /\ page = "map-data" /\ upload' = [upload EXCEPT !.extract = FALSE]
        /\ slice' = [slice EXCEPT !.dataExtractGeojson = None, !.isFgbFetching = TRUE]
        /\ UNCHANGED <<page, values, submitted, causes>>
    BY <1>1 DEF generateDataExtract
  <2>2. calls' = calls \union {[kind |-> "extract", area |-> slice.drawnGeojson, values |-> values,
                                category |-> slice.projectDetails.formCategorySelection]}
    BY <1>1 DEF generateDataExtract
  <2>3. /\ Fetched' = None /\ slice'.customFileValidity = slice.customFileValidity
        /\ slice'.projectDetails = slice.projectDetails /\ Divided' = Divided
        /\ slice'.drawnGeojson = slice.drawnGeojson
        /\ slice'.taskSplittingMethod = slice.taskSplittingMethod
        /\ slice'.isTasksSplit = slice.isTasksSplit
        /\ upload'.form = upload.form
    BY <1>0, <2>1 DEF Slice, Fetched, Divided
  <2>4. Asked'
    <3>1. values.formCategorySelection = slice.projectDetails.formCategorySelection
      BY <1>0, <2>1 DEF Parts, Asked
    <3>2. \A c \in calls' : c.kind = "extract" => c.category = c.values.formCategorySelection
      BY <1>0, <2>2, <3>1 DEF Parts, Asked
    <3> QED
      BY <2>1, <2>3, <3>1, <3>2 DEF Asked
  <2>5. Uploaded'
    BY <2>3 DEF Uploaded
  <2>6. Consistent'
    BY <1>0, <2>1, <2>3 DEF Parts, Consistent, ExtractFits, FormFits, TasksFit
  <2> QED
    BY <1>0, <2>1, <2>4, <2>5, <2>6, SentStays DEF Parts
<1>2. CASE generateTaskBasedOnSelection
  <2> DEFINE m == slice.taskSplittingMethod
  <2>1. /\ m \in Split /\ page = "split-tasks"
        /\ calls' = calls \union {[kind |-> m, area |-> slice.drawnGeojson]}
        /\ Save([slice EXCEPT !.loading[m] = TRUE], values)
        /\ UNCHANGED <<page, upload, submitted, causes>>
    BY <1>2 DEF generateTaskBasedOnSelection
  <2>2. PICK l : l = [slice.loading EXCEPT ![m] = TRUE]
    OBVIOUS
  <2>3. slice' = [slice EXCEPT !.loading = l, !.projectDetails = values] /\ values' = values
    BY <1>0, <2>1, <2>2 DEF Save, Slice
  <2>4. /\ Fetched' = Fetched /\ slice'.customFileValidity = slice.customFileValidity
        /\ slice'.projectDetails = values /\ Divided' = Divided
        /\ slice'.drawnGeojson = slice.drawnGeojson
        /\ slice'.taskSplittingMethod = slice.taskSplittingMethod
        /\ slice'.isTasksSplit = slice.isTasksSplit
    BY <1>0, <2>3 DEF Slice, Fetched, Divided
  <2>5. \A c \in calls' : c.kind = "extract" => c \in calls
    BY <2>1 DEF Split
  <2>6. Asked' /\ Uploaded'
    BY <1>0, <2>1, <2>3, <2>4, <2>5 DEF Parts, Asked, Uploaded
  <2>7. Consistent'
    BY <1>0, <2>1, <2>3, <2>4 DEF Parts, Consistent, ExtractFits, FormFits, TasksFit
  <2> QED
    BY <1>0, <2>1, <2>6, <2>7, SentStays DEF Parts
<1> QED
  BY <1>1, <1>2

\* What is sent is what fits together.
LEMMA SubmissionWhole ==
  ASSUME Whole, submission
  PROVE  Parts' /\ SubmissionConsistent'
<1>0. WizardTypeOK /\ Parts /\ SubmissionConsistent /\ slice \in Slice /\ values \in Details
  BY DEF Whole, WizardTypeOK
<1>1. /\ page = "split-tasks" /\ checkTasksGeneration
      /\ submitted' = [drawnGeojson |-> slice.drawnGeojson, projectDetails |-> values,
                       upload |-> upload.extract, form |-> upload.form,
                       shown |-> slice.dataExtractGeojson, method |-> slice.taskSplittingMethod,
                       tasks |-> slice.dividedTaskGeojson]
      /\ calls' = calls \union {[kind |-> "create"]}
      /\ UNCHANGED <<page, upload, causes>>
  BY DEF submission
<1>2. /\ slice' = [slice EXCEPT !.projectDetailsLoading = TRUE, !.canSwitchCreateProjectSteps = TRUE,
                                !.projectDetails = values]
      /\ values' = values
  BY <1>0 DEF submission, Save, Slice
<1>3. /\ Fetched' = Fetched /\ slice'.customFileValidity = slice.customFileValidity
      /\ slice'.projectDetails = values /\ Divided' = Divided
      /\ slice'.drawnGeojson = slice.drawnGeojson
      /\ slice'.taskSplittingMethod = slice.taskSplittingMethod
      /\ slice'.isTasksSplit = slice.isTasksSplit
  BY <1>0, <1>2 DEF Slice, Fetched, Divided
<1>4. Asked' /\ Uploaded'
  BY <1>0, <1>1, <1>2, <1>3 DEF Parts, Asked, Uploaded
<1>5. Consistent'
  BY <1>0, <1>1, <1>2, <1>3 DEF Parts, Consistent, ExtractFits, FormFits, TasksFit
<1>6. SubmissionConsistent'
  <2> SUFFICES ASSUME causes = {}
               PROVE  SubmissionConsistent'
    BY <1>1 DEF SubmissionConsistent
  <2>1. ExtractFits /\ FormFits /\ TasksFit /\ Uploaded
    BY <1>0 DEF Parts, Consistent
  <2>2. /\ submitted'.drawnGeojson = slice.drawnGeojson /\ submitted'.projectDetails = values
        /\ submitted'.upload = upload.extract /\ submitted'.form = upload.form
        /\ submitted'.shown = Fetched /\ submitted'.method = slice.taskSplittingMethod
        /\ submitted'.tasks = Divided
    BY <1>1 DEF Fetched, Divided
  <2>3. Fetched # None /\ Fetched.way = values.dataExtractWays
    BY <1>1, <2>1 DEF ExtractFits
  <2>4. Fetched.way = "osm_data_extract" \/ Fetched.way = "custom_data_extract"
    <3>1. Fetched \in Extract
      BY <1>0, <2>3, SliceFields DEF Fetched
    <3> QED
      BY <3>1 DEF Extract
  <2>6. IF values.dataExtractWays = "osm_data_extract"
        THEN /\ values.data_extract_url = Fetched /\ values.data_extract_url.area = slice.drawnGeojson
             /\ values.data_extract_url.category = values.formCategorySelection
        ELSE upload.extract
    BY <2>1, <2>3, <2>4 DEF ExtractFits, Uploaded
  <2>7. values.custom_form => upload.form \in ValidForm
    BY <1>1, <2>1 DEF FormFits
  <2>8. Divided # None => Divided.area = slice.drawnGeojson
                          /\ Divided.method = slice.taskSplittingMethod
    BY <1>1, <2>1 DEF TasksFit, checkTasksGeneration
  <2>9. /\ submitted'.shown # None
        /\ submitted'.shown.way = submitted'.projectDetails.dataExtractWays
    BY <2>2, <2>3
  <2>10. IF submitted'.projectDetails.dataExtractWays = "osm_data_extract"
         THEN /\ submitted'.projectDetails.data_extract_url = submitted'.shown
              /\ submitted'.projectDetails.data_extract_url.area = submitted'.drawnGeojson
              /\ submitted'.projectDetails.data_extract_url.category
                   = submitted'.projectDetails.formCategorySelection
         ELSE submitted'.upload
    BY <2>2, <2>6
  <2>11. submitted'.projectDetails.custom_form => submitted'.form \in ValidForm
    BY <2>2, <2>7
  <2>12. submitted'.tasks # None => /\ submitted'.tasks.area = submitted'.drawnGeojson
                                    /\ submitted'.tasks.method = submitted'.method
    BY <2>2, <2>8
  <2> QED
    BY <2>9, <2>10, <2>11, <2>12 DEF SubmissionConsistent
<1> QED
  BY <1>4, <1>5, <1>6 DEF Parts

LEMMA NavigationWhole ==
  ASSUME Whole, NEW p \in Page, navigate(p)
  PROVE  Parts' /\ SubmissionConsistent'
<1>0. WizardTypeOK /\ Parts /\ SubmissionConsistent /\ slice \in Slice
  BY DEF Whole, WizardTypeOK
<1>1. /\ page' = p /\ slice' = Mount(p, slice)
      /\ values' = slice.projectDetails /\ calls' = calls \union MountCalls(p, slice)
      /\ causes' = causes \union {"jumped"} /\ UNCHANGED <<upload, submitted>>
  BY DEF navigate
<1>2. slice'.projectDetails = slice.projectDetails /\ Fetched' = Fetched
  BY <1>0, <1>1, Mounted DEF Fetched
<1>3. \A c \in calls' : c.kind = "extract" => c \in calls
  BY <1>0, <1>1, MountCallsTyped
<1>4. Asked' /\ Uploaded'
  BY <1>0, <1>1, <1>2, <1>3 DEF Parts, Asked, Uploaded
<1>5. causes' # {} /\ causes \subseteq causes'
  BY <1>1
<1>6. Consistent'
  BY <1>5 DEF Consistent
<1> QED
  BY <1>0, <1>1, <1>4, <1>5, <1>6, SentStays DEF Parts

LEMMA AnswerWhole ==
  ASSUME Whole, NEW c \in calls, answer(c)
  PROVE  Parts' /\ SubmissionConsistent'
<1>0. WizardTypeOK /\ Parts /\ SubmissionConsistent /\ slice \in Slice /\ values \in Details
  BY DEF Whole, WizardTypeOK
<1>a. \A d \in calls' : d \in calls
  BY DEF answer
<1>1. CASE extract_answer(c) /\ UNCHANGED <<page, visited>>
  <2>1. Blame(\/ slice.drawnGeojson # c.area \/ page # "map-data"
              \/ [values EXCEPT !.data_extract_url = c.values.data_extract_url] # c.values, "late")
    BY <1>1 DEF extract_answer
  <2>2. /\ causes \subseteq causes'
        /\ causes' = {} => /\ slice.drawnGeojson = c.area /\ page = "map-data"
                           /\ c.values = [values EXCEPT !.data_extract_url = c.values.data_extract_url]
    BY <1>0, <2>1, BlameTyped
  <2>3. ASSUME causes' = {}
        PROVE  /\ c.values.formCategorySelection = values.formCategorySelection
               /\ c.values.custom_form = values.custom_form
               /\ c.values.dataExtractWays = values.dataExtractWays
    BY <1>0, <2>2, <2>3 DEF Details
  <2>4. c.kind = "extract" /\ c.category = c.values.formCategorySelection
    BY <1>0, <1>1 DEF Parts, Asked, extract_answer
  <2>5. /\ Found(c).area = c.area /\ Found(c).category = c.category
        /\ Found(c).way = "osm_data_extract"
    BY DEF Found
  <2>6. /\ UNCHANGED <<page, upload, submitted>>
        /\ slice'.drawnGeojson = slice.drawnGeojson /\ Divided' = Divided
        /\ slice'.taskSplittingMethod = slice.taskSplittingMethod
        /\ slice'.isTasksSplit = slice.isTasksSplit
        /\ slice'.customFileValidity = slice.customFileValidity
    BY <1>0, <1>1, ExtractAnswer DEF Divided
  <2>7. CASE /\ values'.data_extract_url = Found(c) /\ slice'.dataExtractGeojson = Found(c)
             /\ values'.formCategorySelection = c.values.formCategorySelection
             /\ values'.custom_form = c.values.custom_form
             /\ slice'.projectDetails = values'
    <3>1. Fetched' = Found(c)
      BY <2>7 DEF Fetched
    <3>2. Asked' /\ Uploaded'
      BY <1>0, <1>a, <2>5, <2>6, <2>7, <3>1 DEF Parts, Asked, Uploaded
    <3>3. ASSUME causes' = {} PROVE ExtractFits' /\ FormFits' /\ TasksFit'
      <4>1. ExtractFits /\ FormFits /\ TasksFit
        BY <1>0, <2>2, <3>3 DEF Parts, Consistent
      <4>2. ExtractFits'
        BY <2>2, <2>3, <2>4, <2>5, <2>6, <2>7, <3>1, <3>3 DEF ExtractFits
      <4>3. FormFits'
        BY <2>3, <2>6, <2>7, <3>3, <4>1 DEF FormFits
      <4>4. TasksFit'
        BY <2>6, <4>1 DEF TasksFit
      <4> QED
        BY <4>2, <4>3, <4>4
    <3> QED
      BY <1>0, <2>2, <2>6, <3>2, <3>3, SentStays DEF Parts, Consistent
  <2>8. CASE /\ values'.data_extract_url = Found(c)
             /\ slice'.dataExtractGeojson = slice.dataExtractGeojson
             /\ values'.formCategorySelection = c.values.formCategorySelection
             /\ values'.custom_form = c.values.custom_form
             /\ values'.dataExtractWays = c.values.dataExtractWays
             /\ slice'.projectDetails = values'
    <3>1. Fetched' = Fetched
      BY <2>8 DEF Fetched
    <3>2. Asked' /\ Uploaded'
      BY <1>0, <1>a, <2>6, <2>8, <3>1 DEF Parts, Asked, Uploaded
    <3>3. ASSUME causes' = {} PROVE ExtractFits' /\ FormFits' /\ TasksFit'
      <4>1. ExtractFits /\ FormFits /\ TasksFit
        BY <1>0, <2>2, <3>3 DEF Parts, Consistent
      <4>2. Fetched # None /\ Fetched.way = "osm_data_extract" => Fetched = Found(c)
        <5>1. Fetched \in Extract \union {None}
          BY <1>0, SliceFields DEF Fetched
        <5>2. ASSUME Fetched # None, Fetched.way = "osm_data_extract" PROVE Fetched = Found(c)
          <6>1. Fetched \in [way : {"osm_data_extract"}, area : Area, category : Category]
            BY <5>1, <5>2 DEF Extract
          <6>2. Fetched.area = c.area /\ Fetched.category = c.category
            BY <2>2, <2>3, <2>4, <3>3, <4>1, <5>2 DEF ExtractFits
          <6> QED
            BY <6>1, <6>2 DEF Found
        <5> QED
          BY <5>2
      <4>3. ExtractFits'
        BY <2>2, <2>3, <2>4, <2>5, <2>6, <2>8, <3>1, <3>3, <4>1, <4>2 DEF ExtractFits
      <4>4. FormFits'
        BY <2>3, <2>6, <2>8, <3>3, <4>1 DEF FormFits
      <4>5. TasksFit'
        BY <2>6, <4>1 DEF TasksFit
      <4> QED
        BY <4>3, <4>4, <4>5
    <3> QED
      BY <1>0, <2>2, <2>6, <3>2, <3>3, SentStays DEF Parts, Consistent
  <2>9. CASE /\ slice'.dataExtractGeojson = slice.dataExtractGeojson /\ values' = values
             /\ slice'.projectDetails = slice.projectDetails
    <3>1. Fetched' = Fetched
      BY <2>9 DEF Fetched
    <3>2. Asked' /\ Uploaded'
      BY <1>0, <1>a, <2>6, <2>9, <3>1 DEF Parts, Asked, Uploaded
    <3>3. Consistent'
      BY <1>0, <2>2, <2>6, <2>9, <3>1 DEF Parts, Consistent, ExtractFits, FormFits, TasksFit
    <3> QED
      BY <1>0, <2>2, <2>6, <3>2, <3>3, SentStays DEF Parts
  <2> QED
    BY <1>0, <1>1, <2>7, <2>8, <2>9, ExtractAnswer
<1>2. CASE split_answer(c) /\ UNCHANGED <<page, visited>>
  <2>1. Blame(slice.drawnGeojson # c.area \/ slice.taskSplittingMethod # c.kind, "late")
    BY <1>2 DEF split_answer
  <2>2. /\ causes \subseteq causes'
        /\ causes' = {} => slice.drawnGeojson = c.area /\ slice.taskSplittingMethod = c.kind
    BY <1>0, <2>1, BlameTyped
  <2>3. /\ c.kind \in Split /\ UNCHANGED <<page, values, upload, submitted>>
        /\ slice'.drawnGeojson = slice.drawnGeojson /\ Fetched' = Fetched
        /\ slice'.projectDetails = slice.projectDetails
        /\ slice'.taskSplittingMethod = slice.taskSplittingMethod
        /\ slice'.customFileValidity = slice.customFileValidity
        /\ \/ /\ slice'.isTasksSplit = [m \in Split |-> m = c.kind]
              /\ Divided' = [area |-> c.area, method |-> c.kind]
           \/ /\ slice'.isTasksSplit = slice.isTasksSplit
              /\ Divided' = Divided
    BY <1>0, <1>2, SplitAnswer DEF Fetched, Divided
  <2>4. Asked' /\ Uploaded'
    BY <1>0, <1>a, <2>3 DEF Parts, Asked, Uploaded
  <2>5. ASSUME causes' = {} PROVE ExtractFits' /\ FormFits' /\ TasksFit'
    <3>1. ExtractFits /\ FormFits /\ TasksFit
      BY <1>0, <2>2, <2>5 DEF Parts, Consistent
    <3>2. ExtractFits' /\ FormFits'
      BY <2>3, <3>1 DEF ExtractFits, FormFits
    <3>3. TasksFit'
      <4>1. CASE /\ slice'.isTasksSplit = [m \in Split |-> m = c.kind]
                 /\ Divided' = [area |-> c.area, method |-> c.kind]
        <5>1. \A m \in Split : slice'.isTasksSplit[m] => m = c.kind
          BY <4>1
        <5>2. c.kind # "CHOOSE_AREA_AS_TASK"
          BY <2>3 DEF Split
        <5> QED
          BY <2>2, <2>3, <2>5, <4>1, <5>1, <5>2 DEF TasksFit
      <4>2. CASE slice'.isTasksSplit = slice.isTasksSplit /\ Divided' = Divided
        BY <2>3, <3>1, <4>2 DEF TasksFit
      <4> QED
        BY <2>3, <4>1, <4>2
    <3> QED
      BY <3>2, <3>3
  <2> QED
    BY <1>0, <2>2, <2>3, <2>4, <2>5, SentStays DEF Parts, Consistent
<1>3. CASE ValidateCustomForm(c) /\ UNCHANGED <<page, visited>>
  <2>1. Blame(upload.form # c.form, "late")
    BY <1>3 DEF ValidateCustomForm
  <2>2. causes \subseteq causes' /\ (causes' = {} => upload.form = c.form)
    BY <1>0, <2>1, BlameTyped
  <2>3. /\ UNCHANGED <<page, values, upload, submitted>>
        /\ slice'.drawnGeojson = slice.drawnGeojson /\ Fetched' = Fetched /\ Divided' = Divided
        /\ slice'.projectDetails = slice.projectDetails
        /\ slice'.taskSplittingMethod = slice.taskSplittingMethod
        /\ slice'.isTasksSplit = slice.isTasksSplit
        /\ slice'.customFileValidity => c.form \in ValidForm
    BY <1>0, <1>3, FormAnswer DEF Fetched, Divided
  <2>4. Asked' /\ Uploaded'
    BY <1>0, <1>a, <2>3 DEF Parts, Asked, Uploaded
  <2>5. Consistent'
    BY <1>0, <2>2, <2>3 DEF Parts, Consistent, ExtractFits, FormFits, TasksFit
  <2> QED
    BY <1>0, <2>2, <2>3, <2>4, <2>5, SentStays DEF Parts
<1>4. CASE submission_answer(c)
  <2>1. submitted' = None /\ causes' = causes
    BY <1>0, <1>4, SubmissionAnswer
  <2>2. SubmissionConsistent'
    BY <1>0, <2>1, SentStays
  <2>3. CASE /\ UNCHANGED <<page, visited, values, upload>>
             /\ slice'.drawnGeojson = slice.drawnGeojson
             /\ slice'.dataExtractGeojson = slice.dataExtractGeojson
             /\ slice'.projectDetails = slice.projectDetails
             /\ slice'.dividedTaskGeojson = slice.dividedTaskGeojson
             /\ slice'.taskSplittingMethod = slice.taskSplittingMethod
             /\ slice'.isTasksSplit = slice.isTasksSplit
             /\ slice'.customFileValidity = slice.customFileValidity
    <3>1. Fetched' = Fetched /\ Divided' = Divided
      BY <2>3 DEF Fetched, Divided
    <3>2. Asked' /\ Uploaded'
      BY <1>0, <1>a, <2>3, <3>1 DEF Parts, Asked, Uploaded
    <3>3. Consistent'
      BY <1>0, <2>1, <2>3, <3>1 DEF Parts, Consistent, ExtractFits, FormFits, TasksFit
    <3> QED
      BY <2>2, <3>2, <3>3 DEF Parts
  <2>4. CASE /\ page' = "create-project" /\ visited' = {"create-project"}
             /\ values' = NoDetails /\ upload' = NoUpload
             /\ slice'.dataExtractGeojson = None /\ slice'.projectDetails = NoDetails
             /\ slice'.dividedTaskGeojson = None /\ slice'.drawnGeojson = NoArea
    <3>1. Fetched' = None /\ Divided' = None /\ upload'.form = NoForm
      BY <2>4 DEF Fetched, Divided, NoUpload
    <3>2. Asked' /\ Uploaded'
      BY <1>0, <1>a, <2>4, <3>1 DEF Parts, Asked, Uploaded
    <3>3. Consistent'
      BY <2>4, <3>1 DEF Consistent, ExtractFits, FormFits, TasksFit
    <3> QED
      BY <2>2, <3>2, <3>3 DEF Parts
  <2> QED
    BY <1>0, <1>4, <2>3, <2>4, SubmissionAnswer
<1> QED
  BY <1>1, <1>2, <1>3, <1>4 DEF answer

LEMMA WholeStep ==
  ASSUME Whole, [WizardNext]_wizardVars
  PROVE  Whole'
<1>0. WizardTypeOK'
  BY WizardTypeStep DEF Whole
<1> SUFFICES Parts' /\ SubmissionConsistent'
  BY <1>0 DEF Whole
<1>1. CASE ProjectDetailsForm \/ UploadArea \/ SelectForm \/ DataExtract \/ previous_SplitTasks
  BY <1>1, PagesWhole
<1>2. ASSUME NEW a \in Area \union {NoArea}, (a \in Area /\ draw(a)) \/ upload_area(a) \/ change_area(a)
      PROVE  Parts' /\ SubmissionConsistent'
  BY <1>2, AreaWhole
<1>3. CASE \/ form_ways \/ \E c \in Category : select_category(c)
           \/ \E way \in {"osm_data_extract", "custom_data_extract"} : extract_way(way)
           \/ \E m \in Method : splitting_method(m)
  BY <1>3, ChoiceWhole
<1>4. CASE \/ reset_form \/ reset_extract \/ \E f \in Form : upload_form(f)
           \/ \E good \in BOOLEAN : upload_extract(good)
  BY <1>4, FileWhole
<1>5. CASE generateDataExtract \/ generateTaskBasedOnSelection
  BY <1>5, AskWhole
<1>6. CASE submission
  BY <1>6, SubmissionWhole
<1>7. ASSUME NEW p \in Page, navigate(p) PROVE Parts' /\ SubmissionConsistent'
  BY <1>7, NavigationWhole
<1>8. ASSUME NEW c \in calls, answer(c) PROVE Parts' /\ SubmissionConsistent'
  BY <1>8, AnswerWhole
<1>9. CASE UNCHANGED wizardVars
  BY <1>9 DEF wizardVars, Whole, Parts, Asked, Uploaded, Consistent, ExtractFits, FormFits, TasksFit,
       Fetched, Divided, SubmissionConsistent
<1> QED
  BY <1>1, <1>2, <1>3, <1>4, <1>5, <1>6, <1>7, <1>8, <1>9 DEF WizardNext

LEMMA WholeStart == WizardInit => Whole
<1> SUFFICES ASSUME WizardInit PROVE Whole
  OBVIOUS
<1>1. /\ calls = {} /\ submitted = None /\ page = "create-project" /\ upload.form = NoForm
      /\ Fetched = None /\ Divided = None /\ slice.taskSplittingMethod = None
      /\ slice.projectDetails = NoDetails /\ values = NoDetails
  BY DEF WizardInit, Fetched, Divided, NoUpload
<1>2. Parts /\ SubmissionConsistent
  BY <1>1 DEF Parts, Asked, Uploaded, Consistent, ExtractFits, FormFits, TasksFit, SubmissionConsistent
<1> QED
  BY <1>2, WizardTypeStart DEF Whole

\* Whatever is chosen, replaced and asked for in whatever order, and in however many projects one
\* after another: the parts of a submission belong together unless one of the four causes has
\* come about.
THEOREM SubmissionConsistentHolds == WizardSpec => []SubmissionConsistent
<1>1. WizardInit => Whole
  BY WholeStart
<1>2. Whole /\ [WizardNext]_wizardVars => Whole'
  BY WholeStep
<1>3. Whole => SubmissionConsistent
  BY DEF Whole
<1> QED
  BY <1>1, <1>2, <1>3, PTL DEF WizardSpec

-----------------------------------------------------------------------------
(* The invariant.  Requests and the submissions they belong to. *)

Unfinished(r) == r.step \notin {"ok", "error"}
Creating(r) == r.kind = "create" /\ r.step = "row"
Deleting(r) == r.kind = "delete" /\ r.step \in {"s3", "row"}
Muted(r) == [r EXCEPT !.live = FALSE]

\* What is asked for a project is asked for one that ODK Central has made.
Requests ==
  \A r \in open :
    /\ r.kind # "create" \/ r.step \in {"row", "ok"} => r.id \in created
    /\ r.by # Staff \/ r.kind = "delete"
    /\ r.task => r.kind = "generate" /\ ~r.live
    /\ r.kind = "manager" => r.admin \in Manager

\* Every row and every project of ODK Central has an id that ODK Central handed out.
Made == \A p \in Project : Exists(p) \/ odk[p] # {} => p \in created

\* Every answer that is waited for is waited for by the submission that asked.
Heard ==
  /\ \A t, u \in thunk : t.by = u.by /\ t.try = u.try => t = u
  /\ \A t \in thunk : /\ t.try <= wizard[t.by].tries
                      /\ t.step # "create" => t.projectId \in created
                      /\ t.step = "create" => t.projectId = NoProject
  /\ \A r \in open : r.live =>
       \E t \in thunk : /\ t.by = r.by /\ t.try = r.try /\ t.step = r.kind /\ t.plan = r.plan
                        /\ r.kind # "create" => r.id = t.projectId
  /\ \A r, q \in open : r.live /\ q.live /\ r.by = q.by /\ r.try = q.try /\ r.kind # "manager" => r = q

Core == TypeOK /\ Requests /\ Made /\ Heard

-----------------------------------------------------------------------------
(* The backend. *)

LEMMA RequestFields ==
  ASSUME NEW r \in Request
  PROVE  /\ r.kind \in Kind /\ r.by \in Browser \union {Staff} /\ r.try \in 0..MaxTries
         /\ r.id \in Project \union {NoProject} /\ r.name \in Name /\ r.plan \in Plan
         /\ r.admin \in Manager \union {NoManager} /\ r.step \in Step
         /\ r.live \in BOOLEAN /\ r.task \in BOOLEAN
BY DEF Request

\* A request that follows from r.
Follows(r, q) ==
  /\ q.kind = r.kind /\ q.by = r.by /\ q.try = r.try /\ q.name = r.name /\ q.plan = r.plan
  /\ q.admin = r.admin
  /\ q.live => r.live
  /\ r.live => q.live \/ q.kind = "generate"
  /\ q.task => r.task \/ (q.kind = "generate" /\ ~q.live)

LEMMA StepTo ==
  ASSUME NEW r \in Request, NEW s \in Step, NEW q, q = [r EXCEPT !.step = s]
  PROVE  q \in Request /\ Follows(r, q) /\ q.id = r.id /\ q.step = s /\ q.live = r.live
         /\ q.task = r.task
BY DEF Request, Follows

LEMMA AnsweredIs ==
  ASSUME NEW r \in Request, NEW s \in {"ok", "error"}, NEW q \in Answered(r, s), q \notin open \ {r}
  PROVE  r.live /\ q = [r EXCEPT !.step = s] /\ s \in Step
BY DEF Answered, Step

\* How the requests change.
Passes(r) ==
  /\ \A q \in open : q # r => q \in open'
  /\ \A q \in open' : q \notin open \ {r} =>
       /\ q \in Request /\ Follows(r, q)
       /\ q.id = r.id \/ (Creating(q) /\ q.id \in created' \ created)
       /\ Creating(q) => q.id \in created' \ created
       /\ q.kind = "create" /\ q.step = "ok" => Creating(r)
  /\ \A p, q \in open' : p \notin open \ {r} /\ q \notin open \ {r} /\ p.live /\ q.live => p = q

LEMMA PassAnswered ==
  ASSUME NEW r \in open, open \subseteq Request, NEW s \in {"ok", "error"}, open' = Answered(r, s),
         r.kind = "create" /\ s = "ok" => Creating(r)
  PROVE  Passes(r)
<1>1. \A q \in open : q # r => q \in open'
  BY DEF Answered
<1>2. ASSUME NEW q \in open', q \notin open \ {r}
      PROVE  /\ q \in Request /\ Follows(r, q) /\ q.id = r.id /\ q.step = s
             /\ q = [r EXCEPT !.step = s]
  <2>1. q = [r EXCEPT !.step = s] /\ s \in Step
    BY <1>2, AnsweredIs
  <2> QED
    BY <2>1, StepTo
<1>3. \A q \in open' : q \notin open \ {r} => ~Creating(q) /\ (q.kind = "create" /\ q.step = "ok" => Creating(r))
  BY <1>2 DEF Creating, Follows
<1> QED
  BY <1>1, <1>2, <1>3 DEF Passes

LEMMA PassAt ==
  ASSUME NEW r \in open, open \subseteq Request, NEW s \in Step, open' = At(r, s),
         r.kind = "create" => s \notin {"row", "ok"}
  PROVE  Passes(r)
<1>1. \A q \in open : q # r => q \in open'
  BY DEF At
<1>2. ASSUME NEW q \in open', q \notin open \ {r}
      PROVE  /\ q \in Request /\ Follows(r, q) /\ q.id = r.id /\ q.step = s
             /\ q = [r EXCEPT !.step = s]
  <2>1. q = [r EXCEPT !.step = s]
    BY <1>2 DEF At
  <2> QED
    BY <2>1, StepTo
<1>3. \A q \in open' : q \notin open \ {r} => ~Creating(q) /\ (q.kind = "create" /\ q.step = "ok" => Creating(r))
  BY <1>2 DEF Creating, Follows
<1> QED
  BY <1>1, <1>2, <1>3 DEF Passes

LEMMA PassCreated ==
  ASSUME TypeOK, NEW r \in open, create_odk_project(r)
  PROVE  Passes(r)
<1>1. PICK p \in Project \ created :
        created' = created \union {p} /\ open' = (open \ {r}) \union {[r EXCEPT !.step = "row", !.id = p]}
  BY DEF create_odk_project
<1>2. r \in Request /\ r.kind = "create"
  BY DEF TypeOK, create_odk_project
<1>3. PICK n : n = [r EXCEPT !.step = "row", !.id = p]
  OBVIOUS
<1>4. n \in Request /\ Follows(r, n) /\ Creating(n) /\ n.id = p /\ n.step = "row"
  BY <1>2, <1>3 DEF Request, Step, Follows, Creating
<1>5. \A q \in open' : q \notin open \ {r} => q = n
  BY <1>1, <1>3
<1>6. \A q \in open : q # r => q \in open'
  BY <1>1
<1> QED
  BY <1>1, <1>4, <1>5, <1>6 DEF Passes

LEMMA PassBig ==
  ASSUME NEW r \in open, open \subseteq Request, r.kind = "generate",
         open' = Answered(r, "ok")
                   \union {[r EXCEPT !.step = "features", !.live = FALSE, !.task = TRUE]}
  PROVE  Passes(r)
<1>1. \A q \in open : q # r => q \in open'
  BY DEF Answered
<1>2. PICK n : n = [r EXCEPT !.step = "features", !.live = FALSE, !.task = TRUE]
  OBVIOUS
<1>3. n \in Request /\ Follows(r, n) /\ n.id = r.id /\ n.kind = "generate" /\ ~n.live
  BY <1>2 DEF Request, Step, Follows
<1>4. ASSUME NEW q \in open', q \notin open \ {r}, q # n
      PROVE  /\ q \in Request /\ Follows(r, q) /\ q.id = r.id /\ q = [r EXCEPT !.step = "ok"]
  <2>1. q \in Answered(r, "ok")
    BY <1>2, <1>4
  <2>2. q = [r EXCEPT !.step = "ok"] /\ "ok" \in Step
    BY <1>4, <2>1, AnsweredIs
  <2> QED
    BY <2>2, StepTo
<1>5. \A q \in open' : q \notin open \ {r} =>
        q \in Request /\ Follows(r, q) /\ q.id = r.id /\ q.kind = "generate"
  BY <1>3, <1>4 DEF Follows
<1>6. \A p, q \in open' : p \notin open \ {r} /\ q \notin open \ {r} /\ p.live /\ q.live => p = q
  BY <1>3, <1>4
<1> QED
  BY <1>1, <1>5, <1>6 DEF Passes, Creating

LEMMA BackendPasses ==
  ASSUME TypeOK, NEW r \in open, backend(r)
  PROVE  Passes(r) /\ UNCHANGED <<thunk, wizard, losses>>
<1>0. open \subseteq Request
  BY DEF TypeOK
<1>1. UNCHANGED <<thunk, wizard, losses>>
  BY DEF backend, refuse, create_check, create_odk_project, create_row, upload_project_task_boundaries,
         get_or_set_data_extract, upload_custom_extract, add_additional_entity_list, generate_files,
         create_entity_list, create_odk_xform, get_appuser_token, generate_content, generate_commit,
         add_new_project_manager, delete_odk_project, delete_all_objs_under_prefix, delete_row, browser
<1>2. CASE refuse(r)
  <2>1. open' = Answered(r, "error")
    BY <1>2 DEF refuse
  <2> QED
    BY <1>0, <1>1, <2>1, PassAnswered
<1>3. CASE create_check(r)
  BY <1>0, <1>1, <1>3, PassAt DEF create_check, Step
<1>4. CASE create_odk_project(r)
  BY <1>1, <1>4, PassCreated
<1>5. CASE create_row(r)
  <2>1. Creating(r) /\ open' = Answered(r, "ok")
    BY <1>5 DEF create_row, Creating
  <2> QED
    BY <1>0, <1>1, <2>1, PassAnswered
<1>6. CASE \/ upload_project_task_boundaries(r) \/ get_or_set_data_extract(r)
           \/ add_additional_entity_list(r) \/ generate_commit(r) \/ add_new_project_manager(r)
           \/ delete_row(r)
  <2>1. r.kind # "create" /\ open' = Answered(r, "ok")
    BY <1>6 DEF upload_project_task_boundaries, get_or_set_data_extract, add_additional_entity_list,
         generate_commit, add_new_project_manager, delete_row
  <2> QED
    BY <1>0, <1>1, <2>1, PassAnswered
<1>7. CASE upload_custom_extract(r)
  <2>1. r.kind # "create" /\ (open' = Answered(r, "ok") \/ open' = At(r, "row")) /\ "row" \in Step
    BY <1>7 DEF upload_custom_extract, Step
  <2> QED
    BY <1>0, <1>1, <2>1, PassAnswered, PassAt
<1>8. CASE generate_files(r)
  <2>1. CASE r.plan.big
    BY <1>0, <1>1, <1>8, <2>1, PassBig DEF generate_files
  <2>2. CASE ~r.plan.big
    BY <1>0, <1>1, <1>8, <2>2, PassAt DEF generate_files, Step
  <2> QED
    BY <2>1, <2>2
<1>9. CASE create_entity_list(r) \/ create_odk_xform(r) \/ get_appuser_token(r)
  <2>1. r.kind # "create" /\ \E s \in {"form", "app_user", "commit"} : open' = At(r, s)
    BY <1>9 DEF create_entity_list, create_odk_xform, get_appuser_token, generate_content, After
  <2> QED
    BY <1>0, <1>1, <2>1, PassAt DEF Step
<1>10. CASE delete_odk_project(r) \/ delete_all_objs_under_prefix(r)
  <2>1. r.kind # "create" /\ (open' = At(r, "s3") \/ open' = At(r, "row"))
    BY <1>10 DEF delete_odk_project, delete_all_objs_under_prefix
  <2> QED
    BY <1>0, <1>1, <2>1, PassAt DEF Step
<1> QED
  BY <1>2, <1>3, <1>4, <1>5, <1>6, <1>7, <1>8, <1>9, <1>10 DEF backend

\* The tables stay of their type.
LEMMA RowTyped ==
  ASSUME TypeOK, NEW p \in Project, Exists(p)
  PROVE  /\ projects[p] \in Row
         /\ [projects[p] EXCEPT !.tasks = TRUE] \in Row
         /\ [projects[p] EXCEPT !.data_extract_url = TRUE] \in Row
         /\ [projects[p] EXCEPT !.odk_form_id = TRUE] \in Row
         /\ [projects[p] EXCEPT !.odk_form_id = TRUE, !.odk_token = TRUE] \in Row
         /\ \A m \in Manager : [projects[p] EXCEPT !.managers = @ \union {m}] \in Row
<1>1. projects[p] \in Row
  BY DEF TypeOK, Exists
<1> QED
  BY <1>1 DEF Row

\* The id of a request is one that ODK Central has handed out, once it is known.
LEMMA IdMade ==
  ASSUME Core, NEW r \in open, r.kind # "create" \/ r.step \in {"row", "ok"}
  PROVE  r.id \in created /\ r.id \in Project
BY DEF Core, Requests, TypeOK

LEMMA ProjectsTyped ==
  ASSUME Core, NEW r \in open, backend(r)
  PROVE  projects' \in [Project -> Row \union {NoRow}]
<1>1. TypeOK /\ r \in Request /\ projects \in [Project -> Row \union {NoRow}]
  BY DEF Core, TypeOK
<1>2. CASE UNCHANGED projects
  BY <1>1, <1>2
<1>3. CASE create_row(r)
  <2>1. r.id \in Project /\ r.by # Staff
    BY <1>3, IdMade DEF create_row, Core, Requests
  <2>2. [name |-> r.name, by |-> r.by, tasks |-> FALSE, data_extract_url |-> FALSE,
         odk_form_id |-> FALSE, odk_token |-> FALSE, managers |-> {}] \in Row
    BY <1>1, <2>1, RequestFields DEF Row
  <2> QED
    BY <1>1, <1>3, <2>1, <2>2 DEF create_row
<1>4. CASE r.kind # "create" /\ Exists(r.id) /\ \E row \in Row : projects' = [projects EXCEPT ![r.id] = row]
  BY <1>1, <1>4, IdMade
<1>5. CASE delete_row(r)
  BY <1>1, <1>5 DEF delete_row
<1>6. r.kind # "create" /\ Exists(r.id) =>
        r.id \in Project /\ projects[r.id] \in Row
  BY <1>1, IdMade, RowTyped
<1>7. CASE upload_project_task_boundaries(r)
  BY <1>1, <1>7, <1>4, <1>6, RowTyped DEF upload_project_task_boundaries, DbTask_create
<1>8. CASE get_or_set_data_extract(r)
  BY <1>1, <1>8, <1>4, <1>6, RowTyped DEF get_or_set_data_extract, DbProject_update
<1>9. CASE upload_custom_extract(r)
  BY <1>1, <1>2, <1>9, <1>4, <1>6, RowTyped DEF upload_custom_extract, DbProject_update
<1>10. CASE generate_files(r)
  BY <1>1, <1>2, <1>10, <1>4, <1>6, RowTyped DEF generate_files, DbProject_update
<1>11. CASE generate_commit(r)
  BY <1>1, <1>2, <1>11, <1>4, <1>6, RowTyped DEF generate_commit, DbProject_update
<1>12. CASE add_new_project_manager(r)
  <2>1. r.admin \in Manager
    BY <1>12 DEF Core, Requests, add_new_project_manager
  <2> QED
    BY <1>1, <1>12, <1>4, <1>6, <2>1, RowTyped DEF add_new_project_manager
<1>13. CASE \/ refuse(r) \/ create_check(r) \/ create_odk_project(r) \/ add_additional_entity_list(r)
            \/ create_entity_list(r) \/ create_odk_xform(r) \/ get_appuser_token(r)
            \/ delete_odk_project(r) \/ delete_all_objs_under_prefix(r)
  BY <1>2, <1>13 DEF refuse, create_check, create_odk_project, add_additional_entity_list, create_entity_list,
       create_odk_xform, get_appuser_token, generate_content, delete_odk_project,
       delete_all_objs_under_prefix
<1> QED
  BY <1>3, <1>5, <1>7, <1>8, <1>9, <1>10, <1>11, <1>12, <1>13 DEF backend

\* What ODK Central holds after a step, and the ids it has handed out.
LEMMA CentralTyped ==
  ASSUME Core, NEW r \in open, backend(r)
  PROVE  /\ odk' \in [Project -> SUBSET OdkPart]
         /\ s3' \subseteq Project /\ created' \subseteq Project /\ condemned' \subseteq Project
         /\ created \subseteq created'
<1>1. /\ odk \in [Project -> SUBSET OdkPart]
      /\ s3 \subseteq Project /\ created \subseteq Project /\ condemned \subseteq Project
  BY DEF Core, TypeOK
<1>2. CASE UNCHANGED central
  BY <1>1, <1>2 DEF central
<1>3. CASE create_odk_project(r)
  BY <1>1, <1>3 DEF create_odk_project, OdkPart
<1>4. r.kind # "create" => r.id \in Project
  BY IdMade
<1>5. CASE upload_custom_extract(r)
  BY <1>1, <1>4, <1>5 DEF upload_custom_extract
<1>6. CASE add_additional_entity_list(r)
  BY <1>1, <1>4, <1>6 DEF add_additional_entity_list, OdkPart
<1>7. CASE create_entity_list(r) \/ create_odk_xform(r) \/ get_appuser_token(r)
  BY <1>1, <1>4, <1>7 DEF create_entity_list, create_odk_xform, get_appuser_token, generate_content, OdkPart
<1>8. CASE delete_odk_project(r)
  BY <1>1, <1>4, <1>8 DEF delete_odk_project
<1>9. CASE delete_all_objs_under_prefix(r)
  BY <1>1, <1>4, <1>9 DEF delete_all_objs_under_prefix
<1>10. CASE \/ refuse(r) \/ create_check(r) \/ create_row(r) \/ upload_project_task_boundaries(r)
            \/ get_or_set_data_extract(r) \/ generate_files(r) \/ generate_commit(r)
            \/ add_new_project_manager(r) \/ delete_row(r)
  BY <1>2, <1>10 DEF refuse, create_check, create_row, upload_project_task_boundaries,
       get_or_set_data_extract, generate_files, generate_commit, add_new_project_manager, delete_row
<1> QED
  BY <1>3, <1>5, <1>6, <1>7, <1>8, <1>9, <1>10 DEF backend

LEMMA TroublesCounted ==
  ASSUME Core, NEW r \in open, backend(r)
  PROVE  faults' \in Nat /\ losses' \in Nat /\ faults' + losses' <= MaxTroubles /\ faults' >= faults
<1>1. faults \in Nat /\ losses \in Nat /\ faults + losses <= MaxTroubles /\ MaxTroubles \in Nat
  BY CreationAssumption DEF Core, TypeOK
<1>2. losses' = losses
  BY BackendPasses DEF Core
<1>3. faults' = faults \/ (faults + losses < MaxTroubles /\ faults' = faults + 1)
  BY DEF backend, refuse, create_check, create_odk_project, create_row, upload_project_task_boundaries,
         get_or_set_data_extract, upload_custom_extract, add_additional_entity_list, generate_files,
         create_entity_list, create_odk_xform, get_appuser_token, generate_content, generate_commit,
         add_new_project_manager, delete_odk_project, delete_all_objs_under_prefix, delete_row, central
<1> QED
  BY <1>1, <1>2, <1>3

\* Only the requests for a project touch its row and its project of ODK Central.
LEMMA OthersKept ==
  ASSUME Core, NEW r \in open, backend(r), NEW p \in Project, p # r.id, p \notin created' \ created
  PROVE  projects'[p] = projects[p] /\ odk'[p] = odk[p]
<1>1. odk \in [Project -> SUBSET OdkPart] /\ projects \in [Project -> Row \union {NoRow}]
  BY DEF Core, TypeOK
<1>2. CASE create_odk_project(r)
  BY <1>1, <1>2 DEF create_odk_project
<1>3. CASE ~create_odk_project(r)
  BY <1>1, <1>3 DEF backend, refuse, create_check, create_row, upload_project_task_boundaries,
         get_or_set_data_extract, upload_custom_extract, add_additional_entity_list, generate_files,
         create_entity_list, create_odk_xform, get_appuser_token, generate_content, generate_commit,
         add_new_project_manager, delete_odk_project, delete_all_objs_under_prefix, delete_row, central,
         DbTask_create, DbProject_update
<1> QED
  BY <1>2, <1>3

LEMMA BackendMade ==
  ASSUME Core, NEW r \in open, backend(r)
  PROVE  Made'
<1>1. /\ created \subseteq created' /\ created' \subseteq Project
      /\ odk' \in [Project -> SUBSET OdkPart] /\ projects' \in [Project -> Row \union {NoRow}]
  BY CentralTyped, ProjectsTyped
<1>2. SUFFICES ASSUME NEW p \in Project, projects'[p] # NoRow \/ odk'[p] # {}
               PROVE  p \in created'
  BY DEF Made, Exists
<1>3. CASE p \in created' \ created
  BY <1>3
<1>4. CASE p # r.id /\ p \notin created' \ created
  BY <1>1, <1>2, <1>4, OthersKept DEF Core, Made, Exists
<1>5. CASE p = r.id /\ p \notin created' \ created
  <2>1. CASE r.kind # "create" \/ r.step \in {"row", "ok"}
    BY <1>1, <1>5, <2>1, IdMade
  <2>2. CASE r.kind = "create" /\ r.step \notin {"row", "ok"}
    <3>1. refuse(r) \/ create_check(r) \/ create_odk_project(r)
      BY <2>2 DEF backend, create_row, upload_project_task_boundaries,
         get_or_set_data_extract, upload_custom_extract, add_additional_entity_list, generate_files,
         create_entity_list, create_odk_xform, get_appuser_token, generate_content, generate_commit,
         add_new_project_manager, delete_odk_project, delete_all_objs_under_prefix, delete_row
    <3>2. projects' = projects
      BY <3>1 DEF refuse, create_check, create_odk_project
    <3>3. odk'[p] = odk[p]
      <4>1. odk \in [Project -> SUBSET OdkPart]
        BY DEF Core, TypeOK
      <4>2. CASE create_odk_project(r)
        BY <4>1, <4>2, <1>5 DEF create_odk_project
      <4>3. CASE refuse(r) \/ create_check(r)
        BY <4>3 DEF refuse, create_check, central
      <4> QED
        BY <3>1, <4>2, <4>3
    <3> QED
      BY <1>1, <1>2, <3>2, <3>3 DEF Core, Made, Exists
  <2> QED
    BY <2>1, <2>2
<1> QED
  BY <1>3, <1>4, <1>5

LEMMA BackendCore ==
  ASSUME Core, NEW r \in open, backend(r)
  PROVE  Core'
<1>1. TypeOK /\ Requests /\ Heard /\ open \subseteq Request
  BY DEF Core, TypeOK
<1>2. Passes(r) /\ thunk' = thunk /\ wizard' = wizard
  BY <1>1, BackendPasses
<1>3. created \subseteq created' /\ created' \subseteq Project
  BY CentralTyped
<1>4. ASSUME NEW q \in open', q \notin open \ {r}
      PROVE  /\ q \in Request /\ Follows(r, q) /\ r \in Request
             /\ q.id = r.id \/ (Creating(q) /\ q.id \in created' \ created)
             /\ Creating(q) => q.id \in created' \ created
             /\ q.kind = "create" /\ q.step = "ok" => Creating(r)
  BY <1>1, <1>2, <1>4 DEF Passes
<1>5. open' \subseteq Request
  BY <1>1, <1>4
<1>6. TypeOK'
  BY <1>1, <1>2, <1>5, ProjectsTyped, CentralTyped, TroublesCounted DEF TypeOK
<1>7. Requests'
  <2>1. SUFFICES ASSUME NEW q \in open'
                 PROVE  /\ q.kind # "create" \/ q.step \in {"row", "ok"} => q.id \in created'
                        /\ q.by # Staff \/ q.kind = "delete"
                        /\ q.task => q.kind = "generate" /\ ~q.live
                        /\ q.kind = "manager" => q.admin \in Manager
    BY DEF Requests
  <2>2. CASE q \in open \ {r}
    BY <1>1, <1>3, <2>2 DEF Requests
  <2>3. CASE q \notin open \ {r}
    <3>1. /\ Follows(r, q) /\ r \in Request
          /\ q.id = r.id \/ q.id \in created' \ created
          /\ Creating(q) => q.id \in created' \ created
          /\ q.kind = "create" /\ q.step = "ok" => Creating(r)
      BY <1>4, <2>3
    <3>2. /\ r.kind # "create" \/ r.step \in {"row", "ok"} => r.id \in created
          /\ r.by # Staff \/ r.kind = "delete"
          /\ r.kind = "manager" => r.admin \in Manager
      BY <1>1 DEF Requests
    <3>3. q.kind # "create" \/ q.step \in {"row", "ok"} => q.id \in created'
      BY <1>3, <3>1, <3>2 DEF Follows, Creating
    <3>4. q.task => q.kind = "generate" /\ ~q.live
      <4>1. r.task => r.kind = "generate" /\ ~r.live
        BY <1>1 DEF Requests
      <4> QED
        BY <3>1, <4>1 DEF Follows
    <3> QED
      BY <3>1, <3>2, <3>3, <3>4 DEF Follows
  <2> QED
    BY <2>2, <2>3
<1>8. Heard'
  <2>1. \A t \in thunk : t.step # "create" => t.projectId \in created'
    BY <1>1, <1>3 DEF Heard
  <2>2. ASSUME NEW q \in open', q.live
        PROVE  /\ q \notin open \ {r} => r.live /\ Follows(r, q) /\ (r.kind # "create" => q.id = r.id)
               /\ q \in open \ {r} => q \in open
    BY <1>4, <2>2 DEF Follows, Creating
  <2>3. ASSUME NEW q \in open', q.live
        PROVE  \E t \in thunk : /\ t.by = q.by /\ t.try = q.try /\ t.step = q.kind /\ t.plan = q.plan
                                /\ q.kind # "create" => q.id = t.projectId
    <3>1. CASE q \in open
      BY <1>1, <2>3, <3>1 DEF Heard
    <3>2. CASE q \notin open
      <4>1. r.live /\ Follows(r, q) /\ (r.kind # "create" => q.id = r.id)
        BY <2>2, <2>3, <3>2
      <4>2. PICK t \in thunk : /\ t.by = r.by /\ t.try = r.try /\ t.step = r.kind /\ t.plan = r.plan
                               /\ r.kind # "create" => r.id = t.projectId
        BY <1>1, <4>1 DEF Heard
      <4> QED
        BY <4>1, <4>2 DEF Follows
    <3> QED
      BY <3>1, <3>2
  <2>4. ASSUME NEW p \in open', NEW q \in open', p.live, q.live, p.by = q.by, p.try = q.try, p.kind # "manager"
        PROVE  p = q
    <3>1. CASE p \notin open \ {r} /\ q \notin open \ {r}
      BY <1>2, <2>4, <3>1 DEF Passes
    <3>2. CASE p \in open \ {r} /\ q \in open \ {r}
      BY <1>1, <2>4, <3>2 DEF Heard
    <3>3. CASE p \in open \ {r} /\ q \notin open \ {r}
      <4>1. r.live /\ Follows(r, q)
        BY <2>2, <2>4, <3>3
      <4>2. p = r
        BY <1>1, <2>4, <3>3, <4>1 DEF Heard, Follows
      <4> QED
        BY <3>3, <4>2
    <3>4. CASE p \notin open \ {r} /\ q \in open \ {r}
      <4>1. r.live /\ Follows(r, p)
        BY <2>2, <2>4, <3>4
      <4>2. r.by = q.by /\ r.try = q.try /\ r.kind # "manager"
        BY <2>4, <4>1 DEF Follows
      <4>3. r = q
        BY <1>1, <2>4, <3>4, <4>1, <4>2 DEF Heard
      <4> QED
        BY <3>4, <4>3
    <3> QED
      BY <3>1, <3>2, <3>3, <3>4
  <2> QED
    BY <1>1, <1>2, <2>1, <2>3, <2>4 DEF Heard
<1> QED
  BY <1>6, <1>7, <1>8, BackendMade DEF Core

-----------------------------------------------------------------------------
(* The wizard: what its submissions do with the requests. *)

LEMMA WizardFields ==
  ASSUME TypeOK, NEW b \in Browser
  PROVE  /\ wizard[b] \in Wizard
         /\ wizard[b].tries \in 0..MaxTries
         /\ wizard[b].redirects \subseteq Delay
         /\ wizard[b].projectDetailsResponse \in Project \union {NoProject}
BY DEF TypeOK, Wizard

\* What the effect of SplitTasks may change.
LEMMA Shown ==
  ASSUME TypeOK, NEW b \in Browser, NEW new \in Wizard, show(b, new)
  PROVE  /\ wizard' \in [Browser -> Wizard]
         /\ \A c \in Browser : c # b => wizard'[c] = wizard[c]
         /\ wizard'[b].tries = new.tries
         /\ wizard'[b].page = new.page
         /\ wizard'[b].projectDetailsResponse = new.projectDetailsResponse
         /\ wizard'[b].failed = new.failed
         /\ \A d \in wizard'[b].redirects :
              \/ d \in new.redirects
              \/ /\ new.generateProjectSuccess
                 /\ d.id = new.projectDetailsResponse
                 /\ d.warning = new.generateProjectWarning
<1>1. wizard \in [Browser -> Wizard]
  BY DEF TypeOK
<1>2. PICK d : d = [id |-> new.projectDetailsResponse, warning |-> new.generateProjectWarning,
                    again |-> \E e \in new.redirects : e.id = new.projectDetailsResponse /\ ~e.again]
  OBVIOUS
<1>3. PICK w : w = [new EXCEPT !.redirects = @ \union {d}]
  OBVIOUS
<1>4. d \in Delay /\ d.id = new.projectDetailsResponse /\ d.warning = new.generateProjectWarning
  BY <1>2 DEF Delay, Wizard
<1>5. /\ w \in Wizard /\ w.tries = new.tries /\ w.page = new.page
      /\ w.projectDetailsResponse = new.projectDetailsResponse
      /\ w.failed = new.failed /\ w.redirects = new.redirects \union {d}
  BY <1>3, <1>4 DEF Wizard
<1>6. handleQRGeneration(wizard[b], new) = new \/ (handleQRGeneration(wizard[b], new) = w /\ new.generateProjectSuccess)
  BY <1>2, <1>3 DEF handleQRGeneration
<1>7. CASE wizard' = [wizard EXCEPT ![b] = new]
  BY <1>1, <1>7
<1>8. CASE wizard' = [wizard EXCEPT ![b] = w] /\ new.generateProjectSuccess
  BY <1>1, <1>4, <1>5, <1>8
<1> QED
  BY <1>6, <1>7, <1>8 DEF show

\* The flags that the effect leaves alone.
LEMMA ShownFlags ==
  ASSUME TypeOK, NEW b \in Browser, NEW new \in Wizard, show(b, new)
  PROVE  /\ wizard'[b].projectDetailsLoading = new.projectDetailsLoading
         /\ wizard'[b].generateProjectSuccess = new.generateProjectSuccess
         /\ wizard'[b].generateProjectWarning = new.generateProjectWarning
         /\ wizard'[b].generateProjectError = new.generateProjectError
         /\ wizard'[b].mixed = new.mixed
<1>1. wizard \in [Browser -> Wizard]
  BY DEF TypeOK
<1>2. PICK S : S = new.redirects \union
         {[id |-> new.projectDetailsResponse, warning |-> new.generateProjectWarning,
           again |-> \E e \in new.redirects : e.id = new.projectDetailsResponse /\ ~e.again]}
  OBVIOUS
<1>3. PICK w : w = [new EXCEPT !.redirects = S]
  OBVIOUS
<1>4. handleQRGeneration(wizard[b], new) = new \/ handleQRGeneration(wizard[b], new) = w
  BY <1>2, <1>3 DEF handleQRGeneration
<1>5. wizard'[b] = new \/ wizard'[b] = w
  BY <1>1, <1>4 DEF show
<1>6. /\ w.projectDetailsLoading = new.projectDetailsLoading
      /\ w.generateProjectSuccess = new.generateProjectSuccess
      /\ w.generateProjectWarning = new.generateProjectWarning
      /\ w.generateProjectError = new.generateProjectError
      /\ w.mixed = new.mixed
  BY <1>3 DEF Wizard
<1> QED
  BY <1>5, <1>6, Zenon

\* What is left of the requests when t has heard of one: some were answered, and some that
\* belong to t go on with nobody waiting for them.
Left(t, rest) ==
  /\ \A q \in rest :
       \/ q \in open
       \/ Unfinished(q) /\ \E o \in open : q = Muted(o) /\ o.by = t.by /\ o.try = t.try
  /\ \A o \in open : Unfinished(o) /\ o.step # "sent" => o \in rest \/ Muted(o) \in rest
  /\ \A o \in open : o \in rest /\ Muted(o) \in rest => Muted(o) \in open

\* Nobody waits for an answer for t.
Quiet(t, rest) == \A q \in rest : q.live => ~(q.by = t.by /\ q.try = t.try)

Ended(t, rest) == thunk' = thunk \ {t} /\ open' = rest /\ Quiet(t, rest)

Called(t, id, kind, rest) == goes_on(t, id, kind, rest) /\ Quiet(t, rest)

\* What a submission may do with an answer, or without one.
Created(t, r, rest) ==
  /\ t.step = "create" /\ r.step = "ok"
  /\ Called(t, r.id, "boundaries", rest)
  /\ show(t.by, [wizard[t.by] EXCEPT !.projectDetailsResponse = r.id])

Proceeded(t, rest) ==
  /\ t.step \in {"boundaries", "extract", "additional"}
  /\ \E kind \in {"extract", "additional", "generate"} : Called(t, t.projectId, kind, rest)
  /\ UNCHANGED wizard

GaveUp(t, rest) ==
  /\ t.step \notin {"create", "delete"}
  /\ Called(t, t.projectId, "delete", rest)
  /\ \E e \in BOOLEAN : show(t.by, [wizard[t.by] EXCEPT !.generateProjectError = e])

Stopped(t, rest) ==
  /\ t.step = "create"
  /\ Ended(t, rest)
  /\ show(t.by, [wizard[t.by] EXCEPT !.generateProjectError = TRUE, !.projectDetailsLoading = FALSE])

Generated(t, r, rest) ==
  /\ t.step = "generate" /\ r.step = "ok"
  /\ Ended(t, rest) \/ Called(t, t.projectId, "manager", rest)
  /\ \E e \in BOOLEAN :
       show(t.by, [wizard[t.by] EXCEPT !.generateProjectSuccess = TRUE,
                                       !.generateProjectWarning = @ \/ t.plan.big,
                                       !.generateProjectError = e])

Assigned(t, rest) ==
  /\ t.step = "manager"
  /\ \/ Ended(t, rest) /\ show(t.by, [wizard[t.by] EXCEPT !.generateProjectError = FALSE])
     \/ open' = rest /\ UNCHANGED <<thunk, wizard>>

Deleted(t, r, rest) ==
  /\ t.step = "delete"
  /\ Ended(t, rest)
  /\ \/ UNCHANGED wizard
     \/ ~Unfinished(r) /\ show(t.by, [wizard[t.by] EXCEPT
                                 !.generateProjectError = TRUE, !.projectDetailsLoading = FALSE,
                                 !.failed = t.projectId])

Turned(t, r, rest) ==
  \/ Created(t, r, rest) \/ Proceeded(t, rest) \/ GaveUp(t, rest) \/ Stopped(t, rest)
  \/ Generated(t, r, rest) \/ Assigned(t, rest) \/ Deleted(t, r, rest)

\* The submission that waits for the answer to r.
Waits(t, r) ==
  /\ t.by = r.by /\ t.try = r.try /\ t.step = r.kind /\ t.plan = r.plan
  /\ r.kind # "create" => r.id = t.projectId

\* What is left after an answer, and after a connection that broke.
LEMMA LeftAnswered ==
  ASSUME NEW t, NEW r \in open, ~Unfinished(r)
  PROVE  Left(t, open \ {r})
BY DEF Left

LEMMA LeftBroken ==
  ASSUME open \subseteq Request, NEW t, NEW r \in open, r.live, r.by = t.by, r.try = t.try,
         NEW rest, \/ rest = open \ {r} /\ (~Unfinished(r) \/ r.step = "sent")
                   \/ rest = (open \ {r}) \union {Muted(r)} /\ Unfinished(r)
  PROVE  Left(t, rest)
<1>1. r \in Request
  OBVIOUS
<1>2. CASE rest = open \ {r} /\ (~Unfinished(r) \/ r.step = "sent")
  BY <1>2 DEF Left
<1>3. CASE rest = (open \ {r}) \union {Muted(r)} /\ Unfinished(r)
  <2>1. Unfinished(Muted(r)) /\ ~Muted(r).live
    BY <1>1, <1>3 DEF Request, Muted, Unfinished
  <2>2. ASSUME NEW o \in open, o \in rest, Muted(o) \in rest
        PROVE  Muted(o) \in open
    <3>0. o \in Request /\ o.live \in BOOLEAN
      BY RequestFields
    <3>1. o # r
      BY <1>3, <2>1, <2>2
    <3>2. CASE ~o.live
      <4>1. Muted(o) = o
        BY <3>0, <3>2 DEF Request, Muted
      <4> QED
        BY <4>1
    <3>3. CASE o.live /\ Muted(o) = Muted(r)
      <4>1. o = r
        BY <1>1, <3>0, <3>3 DEF Request, Muted
      <4> QED
        BY <3>1, <4>1
    <3> QED
      BY <1>3, <2>2, <3>2, <3>3, <3>0
  <2> QED
    BY <1>3, <2>1, <2>2 DEF Left
<1> QED
  BY <1>2, <1>3

\* The requests of t that its catch block turns its back on.
Others(t, rest) ==
  LET unheard == {q \in rest : q.by = t.by /\ q.try = t.try}
  IN  (rest \ unheard) \union {Muted(q) : q \in {u \in unheard : Unfinished(u)}}

LEMMA LeftOthers ==
  ASSUME open \subseteq Request, NEW t, NEW rest, Left(t, rest)
  PROVE  Left(t, Others(t, rest)) /\ Quiet(t, Others(t, rest))
<1> DEFINE mine(q) == q.by = t.by /\ q.try = t.try
<1>1. ASSUME NEW q \in open
      PROVE  /\ Muted(q) \in Request /\ ~Muted(q).live /\ Muted(q).by = q.by /\ Muted(q).try = q.try
             /\ Muted(q).step = q.step /\ (Unfinished(Muted(q)) <=> Unfinished(q))
             /\ Muted(Muted(q)) = Muted(q)
             /\ ~q.live => Muted(q) = q
  BY DEF Request, Muted, Unfinished
<1>2. ASSUME NEW q \in rest
      PROVE  q \in open \/ \E o \in open : q = Muted(o) /\ mine(o) /\ Unfinished(q)
  BY DEF Left
<1>3. ASSUME NEW q \in Others(t, rest)
      PROVE  \/ q \in rest /\ ~mine(q)
             \/ \E u \in rest : mine(u) /\ Unfinished(u) /\ q = Muted(u)
  BY DEF Others
<1>4. ASSUME NEW q \in Others(t, rest), ~(q \in rest /\ ~mine(q))
      PROVE  Unfinished(q) /\ ~q.live /\ \E o \in open : q = Muted(o) /\ mine(o)
  <2>1. PICK u \in rest : mine(u) /\ Unfinished(u) /\ q = Muted(u)
    BY <1>3, <1>4
  <2>2. CASE u \in open
    BY <1>1, <2>1, <2>2
  <2>3. CASE \E o \in open : u = Muted(o) /\ mine(o)
    BY <1>1, <2>1, <2>3
  <2> QED
    BY <1>2, <2>2, <2>3
<1>5. \A q \in Others(t, rest) : q \in open \/ (Unfinished(q) /\ \E o \in open : q = Muted(o) /\ mine(o))
  BY <1>2, <1>4
<1>6. ASSUME NEW o \in open, Unfinished(o), o.step # "sent"
      PROVE  o \in Others(t, rest) \/ Muted(o) \in Others(t, rest)
  <2>1. o \in rest \/ Muted(o) \in rest
    BY <1>6 DEF Left
  <2>2. CASE o \in rest
    BY <1>6, <2>2 DEF Others
  <2>3. CASE Muted(o) \in rest
    <3>1. Muted(o) = Muted(Muted(o)) /\ Unfinished(Muted(o))
      BY <1>1, <1>6
    <3> QED
      BY <2>3, <3>1 DEF Others
  <2> QED
    BY <2>1, <2>2, <2>3
<1>7. ASSUME NEW o \in open, o \in Others(t, rest), Muted(o) \in Others(t, rest)
      PROVE  Muted(o) \in open
  <2>1. CASE o.live
    <3>1. o \in rest /\ ~mine(o)
      BY <1>4, <1>7, <2>1
    <3>2. Muted(o) \in rest
      BY <1>1, <1>4, <1>7, <3>1
    <3> QED
      BY <3>1, <3>2 DEF Left
  <2>2. CASE ~o.live
    BY <1>1, <2>2
  <2> QED
    BY <2>1, <2>2
<1>8. Quiet(t, Others(t, rest))
  BY <1>4 DEF Quiet
<1> QED
  BY <1>5, <1>6, <1>7, <1>8 DEF Left

LEMMA ThunkFields ==
  ASSUME Core, NEW t \in thunk
  PROVE  /\ t \in Thunk /\ t.by \in Browser /\ t.try \in 1..MaxTries /\ t.name \in Name /\ t.plan \in Plan
         /\ t.step \in Kind /\ t.projectId \in Project \union {NoProject}
         /\ t.step # "create" => t.projectId \in created /\ t.projectId \in Project
         /\ t.step = "create" <=> t.projectId = NoProject
<1>1. t \in Thunk /\ created \subseteq Project /\ NoProject \notin Project
  BY CreationAssumption DEF Core, TypeOK
<1>2. (t.step # "create" => t.projectId \in created) /\ (t.step = "create" => t.projectId = NoProject)
  BY DEF Core, Heard
<1>3. /\ t.by \in Browser /\ t.try \in 1..MaxTries /\ t.name \in Name /\ t.plan \in Plan
      /\ t.step \in Kind /\ t.projectId \in Project \union {NoProject}
  BY <1>1 DEF Thunk
<1> QED
  BY <1>1, <1>2, <1>3

\* When nothing else is waited for, nobody waits once r is heard.
LEMMA QuietRest ==
  ASSUME Core, NEW t \in thunk, NEW r \in open, Waits(t, r), r.live, r.kind # "manager",
         NEW rest, rest \subseteq (open \ {r}) \union {Muted(r)}
  PROVE  Quiet(t, rest)
<1>1. r \in Request /\ ~Muted(r).live
  <2>1. r \in Request
    BY DEF Core, TypeOK
  <2> QED
    BY <2>1 DEF Request, Muted
<1>2. \A q \in open : q.live /\ r.by = q.by /\ r.try = q.try => r = q
  BY DEF Core, Heard
<1> QED
  BY <1>1, <1>2 DEF Quiet, Waits

LEMMA GivesUp ==
  ASSUME Core, NEW t \in thunk, t.step # "delete", NEW rest, Left(t, rest),
         NEW new, \/ new = wizard[t.by]
                  \/ new = [wizard[t.by] EXCEPT !.generateProjectError = TRUE] /\ t.step # "create",
         gives_up(t, new, rest)
  PROVE  \E left : Left(t, left) /\ (GaveUp(t, left) \/ Stopped(t, left))
<1>1. open \subseteq Request /\ wizard[t.by] \in Wizard
  BY ThunkFields DEF Core, TypeOK
<1>2. Left(t, Others(t, rest)) /\ Quiet(t, Others(t, rest))
  BY <1>1, LeftOthers
<1>3. CASE t.projectId # NoProject
  <2>1. t.step # "create"
    BY <1>3, ThunkFields
  <2>2. goes_on(t, t.projectId, "delete", Others(t, rest)) /\ show(t.by, new)
    BY <1>3 DEF gives_up, Others, Unfinished, Muted
  <2>3. \E e \in BOOLEAN : new = [wizard[t.by] EXCEPT !.generateProjectError = e]
    <3>1. wizard[t.by] = [wizard[t.by] EXCEPT !.generateProjectError = wizard[t.by].generateProjectError]
      BY <1>1 DEF Wizard
    <3>2. wizard[t.by].generateProjectError \in BOOLEAN
      BY <1>1 DEF Wizard
    <3> QED
      BY <3>1, <3>2, Zenon
  <2>4. GaveUp(t, Others(t, rest))
    BY <1>2, <2>1, <2>2, <2>3 DEF GaveUp, Called
  <2> QED
    BY <1>2, <2>4
<1>4. CASE t.projectId = NoProject
  <2>1. t.step = "create" /\ new = wizard[t.by]
    BY <1>4, ThunkFields
  <2>2. /\ thunk' = thunk \ {t} /\ open' = Others(t, rest)
        /\ show(t.by, [new EXCEPT !.generateProjectError = TRUE, !.projectDetailsLoading = FALSE])
    BY <1>4 DEF gives_up, Others, Unfinished, Muted
  <2>3. Stopped(t, Others(t, rest))
    BY <1>2, <2>1, <2>2 DEF Stopped, Ended
  <2> QED
    BY <1>2, <2>3
<1> QED
  BY <1>3, <1>4

\* An answer, or a connection that broke, is for the submission that waits for it.
LEMMA Heeded ==
  ASSUME Core, NEW r \in open, receive(r) \/ lose(r)
  PROVE  r.live /\ \E t \in thunk, res \in {"ok", "error", "lost"} : \E rest :
           /\ Waits(t, r) /\ Left(t, rest) /\ rest \subseteq (open \ {r}) \union {Muted(r)}
           /\ CreateProjectService(t, r, res, rest)
           /\ res = "lost" \/ (res = r.step /\ ~Unfinished(r) /\ rest = open \ {r})
<1>0. open \subseteq Request /\ r.live
  BY DEF Core, TypeOK, receive, lose
<1>1. \A t \in thunk : t.by = r.by /\ t.try = r.try => Waits(t, r)
  BY <1>0 DEF Core, Heard, Waits
<1>2. CASE receive(r)
  <2>1. PICK t \in thunk : t.by = r.by /\ t.try = r.try /\ CreateProjectService(t, r, r.step, open \ {r})
    BY <1>2 DEF receive
  <2>2. r.step \in {"ok", "error"} /\ ~Unfinished(r)
    BY <1>2 DEF receive, Unfinished
  <2>3. Waits(t, r) /\ Left(t, open \ {r}) /\ open \ {r} \subseteq (open \ {r}) \union {Muted(r)}
    BY <1>1, <2>1, <2>2, LeftAnswered
  <2>4. r.step \in {"ok", "error", "lost"}
    BY <2>2
  <2> QED
    BY <1>0, <2>1, <2>2, <2>3, <2>4, Zenon
<1>3. CASE lose(r)
  <2>1. PICK t \in thunk, handled \in BOOLEAN :
          /\ t.by = r.by /\ t.try = r.try
          /\ handled \/ r.step = "sent"
          /\ CreateProjectService(t, r, "lost",
               (open \ {r}) \union (IF handled /\ r.step \notin {"ok", "error"} THEN {Muted(r)} ELSE {}))
    BY <1>3 DEF lose, Muted
  <2>2. PICK rest : rest = (open \ {r}) \union
                             (IF handled /\ r.step \notin {"ok", "error"} THEN {Muted(r)} ELSE {})
    OBVIOUS
  <2>3. \/ rest = open \ {r} /\ (~Unfinished(r) \/ r.step = "sent")
        \/ rest = (open \ {r}) \union {Muted(r)} /\ Unfinished(r)
    BY <2>1, <2>2 DEF Unfinished
  <2>4. Left(t, rest)
    BY <1>0, <2>1, <2>3, LeftBroken
  <2>5. rest \subseteq (open \ {r}) \union {Muted(r)}
    BY <2>2
  <2>6. CreateProjectService(t, r, "lost", rest)
    BY <2>1, <2>2
  <2>7. Waits(t, r) /\ "lost" \in {"ok", "error", "lost"}
    BY <1>1, <2>1
  <2> QED
    BY <1>0, <2>4, <2>5, <2>6, <2>7, Zenon
<1> QED
  BY <1>2, <1>3

LEMMA Turns ==
  ASSUME Core, NEW r \in open, receive(r) \/ lose(r)
  PROVE  \E t \in thunk : \E rest : Waits(t, r) /\ Left(t, rest) /\ Turned(t, r, rest)
<1>0. PICK t \in thunk, res \in {"ok", "error", "lost"} : r.live /\ \E rest :
        /\ Waits(t, r) /\ Left(t, rest) /\ rest \subseteq (open \ {r}) \union {Muted(r)}
        /\ CreateProjectService(t, r, res, rest)
        /\ res = "lost" \/ (res = r.step /\ ~Unfinished(r) /\ rest = open \ {r})
  BY Heeded
<1>1. PICK rest :
        /\ r.live /\ Waits(t, r) /\ Left(t, rest) /\ rest \subseteq (open \ {r}) \union {Muted(r)}
        /\ CreateProjectService(t, r, res, rest)
        /\ res = "lost" \/ (res = r.step /\ ~Unfinished(r) /\ rest = open \ {r})
  BY <1>0
<1>2. t.step = r.kind
  BY <1>1 DEF Waits
<1>3. r.kind # "manager" => Quiet(t, rest)
  BY <1>1, QuietRest
<1>4. (res = "ok" => r.step = "ok") /\ (res # "lost" => ~Unfinished(r))
  BY <1>1
<1>5. t.step # "delete" /\ gives_up(t, wizard[t.by], rest) =>
        \E left : Left(t, left) /\ (GaveUp(t, left) \/ Stopped(t, left))
  BY <1>1, GivesUp
<1>6. t.step \notin {"create", "delete"} /\
        gives_up(t, [wizard[t.by] EXCEPT !.generateProjectError = TRUE], rest) =>
          \E left : Left(t, left) /\ (GaveUp(t, left) \/ Stopped(t, left))
  BY <1>1, GivesUp
<1>7. ASSUME NEW left, Left(t, left), GaveUp(t, left) \/ Stopped(t, left)
      PROVE  \E any : Waits(t, r) /\ Left(t, any) /\ Turned(t, r, any)
  BY <1>1, <1>7 DEF Turned
<1>8. CASE PostProjectDetails(t, r, res, rest)
  <2>1. r.kind = "create"
    BY <1>8 DEF PostProjectDetails
  <2>2. CASE res = "ok"
    BY <1>1, <1>2, <1>3, <1>4, <1>8, <2>1, <2>2 DEF PostProjectDetails, Turned, Created, Called
  <2>3. CASE res # "ok"
    BY <1>2, <1>5, <1>7, <1>8, <2>1, <2>3 DEF PostProjectDetails
  <2> QED
    BY <2>2, <2>3
<1>9. CASE UploadTaskAreasService(t, r, res, rest)
  <2>1. t.step = "boundaries"
    BY <1>2, <1>9 DEF UploadTaskAreasService
  <2>2. \/ gives_up(t, wizard[t.by], rest)
        \/ gives_up(t, [wizard[t.by] EXCEPT !.generateProjectError = TRUE], rest)
        \/ goes_on(t, t.projectId, "extract", rest) /\ UNCHANGED wizard
    BY <1>9 DEF UploadTaskAreasService
  <2>3. CASE goes_on(t, t.projectId, "extract", rest) /\ UNCHANGED wizard
    BY <1>1, <1>2, <1>3, <2>1, <2>3 DEF Turned, Proceeded, Called
  <2> QED
    BY <1>5, <1>6, <1>7, <2>1, <2>2, <2>3
<1>10. CASE post_extract(t, r, res, rest) \/ PostAdditionalFeatureService(t, r, res, rest)
  <2>1. t.step \in {"extract", "additional"}
    BY <1>2, <1>10 DEF post_extract, PostAdditionalFeatureService
  <2>2. \/ gives_up(t, wizard[t.by], rest)
        \/ \E kind \in {"additional", "generate"} : goes_on(t, t.projectId, kind, rest) /\ UNCHANGED wizard
    BY <1>10 DEF post_extract, PostAdditionalFeatureService
  <2>3. CASE \E kind \in {"additional", "generate"} : goes_on(t, t.projectId, kind, rest) /\ UNCHANGED wizard
    BY <1>1, <1>2, <1>3, <2>1, <2>3 DEF Turned, Proceeded, Called
  <2> QED
    BY <1>5, <1>7, <2>1, <2>2, <2>3
<1>11. CASE GenerateProjectFilesService(t, r, res, rest)
  <2>1. t.step = "generate"
    BY <1>2, <1>11 DEF GenerateProjectFilesService
  <2>2. CASE res # "ok"
    BY <1>6, <1>7, <1>11, <2>1, <2>2 DEF GenerateProjectFilesService
  <2>3. CASE res = "ok"
    <3>1. PICK w : w = [wizard[t.by] EXCEPT !.generateProjectSuccess = TRUE,
                                            !.generateProjectWarning = @ \/ t.plan.big]
      OBVIOUS
    <3>2. \/ thunk' = thunk \ {t} /\ open' = rest /\ show(t.by, [w EXCEPT !.generateProjectError = FALSE])
          \/ goes_on(t, t.projectId, "manager", rest) /\ show(t.by, w)
      BY <1>11, <2>3, <3>1 DEF GenerateProjectFilesService
    <3>3. wizard[t.by] \in Wizard
      BY ThunkFields DEF Core, TypeOK
    <3>4. \A e : [w EXCEPT !.generateProjectError = e] =
             [wizard[t.by] EXCEPT !.generateProjectSuccess = TRUE,
                                  !.generateProjectWarning = @ \/ t.plan.big,
                                  !.generateProjectError = e]
      BY <3>1, <3>3 DEF Wizard
    <3>5. w = [w EXCEPT !.generateProjectError = wizard[t.by].generateProjectError]
      BY <3>1, <3>3 DEF Wizard
    <3>6. wizard[t.by].generateProjectError \in BOOLEAN
      BY <3>3 DEF Wizard
    <3>7. \/ thunk' = thunk \ {t} /\ open' = rest
          \/ goes_on(t, t.projectId, "manager", rest)
      BY <3>2
    <3>8. \E e \in BOOLEAN : show(t.by, [w EXCEPT !.generateProjectError = e])
      BY <3>2, <3>5, <3>6, Zenon
    <3>9. \E e \in BOOLEAN :
            show(t.by, [wizard[t.by] EXCEPT !.generateProjectSuccess = TRUE,
                                            !.generateProjectWarning = @ \/ t.plan.big,
                                            !.generateProjectError = e])
      BY <3>4, <3>8, Zenon
    <3>10. Generated(t, r, rest)
      BY <1>2, <1>3, <1>4, <2>1, <2>3, <3>7, <3>9 DEF Generated, Ended, Called
    <3> QED
      BY <1>1, <3>10 DEF Turned
  <2> QED
    BY <2>2, <2>3
<1>12. CASE AssignProjectManager(t, r, res, rest)
  <2>1. t.step = "manager" /\ r.kind = "manager"
    BY <1>2, <1>12 DEF AssignProjectManager
  <2>2. CASE res = "lost"
    BY <1>5, <1>7, <1>12, <2>1, <2>2 DEF AssignProjectManager
  <2>3. CASE res # "lost" /\ \E q \in rest : q.kind = "manager" /\ q.by = t.by /\ q.try = t.try
    BY <1>1, <1>12, <2>1, <2>3 DEF AssignProjectManager, Turned, Assigned
  <2>4. CASE res # "lost" /\ ~\E q \in rest : q.kind = "manager" /\ q.by = t.by /\ q.try = t.try
    <3>1. /\ thunk' = thunk \ {t} /\ open' = rest
          /\ show(t.by, [wizard[t.by] EXCEPT !.generateProjectError = FALSE])
      BY <1>12, <2>4 DEF AssignProjectManager
    <3>2. rest \subseteq open
      BY <1>1, <2>4
    <3>3. \A q \in open : q.live /\ q.by = t.by /\ q.try = t.try => q.kind = "manager"
      BY <2>1 DEF Core, Heard
    <3>4. Quiet(t, rest)
      BY <2>4, <3>2, <3>3 DEF Quiet
    <3> QED
      BY <1>1, <2>1, <3>1, <3>4 DEF Turned, Assigned, Ended
  <2> QED
    BY <2>2, <2>3, <2>4
<1>13. CASE DeleteProjectService(t, r, res, rest)
  BY <1>1, <1>2, <1>3, <1>4, <1>13 DEF DeleteProjectService, Turned, Deleted, Ended
<1> QED
  BY <1>1, <1>8, <1>9, <1>10, <1>11, <1>12, <1>13 DEF CreateProjectService

-----------------------------------------------------------------------------
(* The wizard keeps the requests and the submissions together. *)

\* A request that a submission has just sent.
Asks(t, q) ==
  /\ q \in Request
  /\ q.kind = t.step /\ q.by = t.by /\ q.try = t.try /\ q.id = t.projectId /\ q.name = t.name /\ q.plan = t.plan
  /\ q.step = "sent" /\ q.live /\ ~q.task
  /\ q.kind = "manager" => q.admin \in Manager

LEMMA SendAsks ==
  ASSUME NEW t \in Thunk, NEW m \in Manager \union {NoManager}, t.step = "manager" => m \in Manager
  PROVE  Asks(t, Send(t, t.step, m))
<1>1. PICK q : q = [kind |-> t.step, by |-> t.by, try |-> t.try, id |-> t.projectId, name |-> t.name,
                    plan |-> t.plan, admin |-> m, step |-> "sent", live |-> TRUE, task |-> FALSE]
  OBVIOUS
<1>2. q = Send(t, t.step, m)
  BY <1>1 DEF Send
<1>3. q \in Request
  BY <1>1 DEF Request, Thunk, Step
<1>4. Asks(t, q)
  BY <1>1, <1>3 DEF Asks
<1> QED
  BY <1>2, <1>4

LEMMA CalledIs ==
  ASSUME Core, NEW t \in thunk, NEW id \in created, NEW kind \in Kind \ {"create"}, NEW rest,
         Called(t, id, kind, rest)
  PROVE  /\ rest \subseteq open'
         /\ \E next \in Thunk :
              /\ next.by = t.by /\ next.try = t.try /\ next.name = t.name /\ next.plan = t.plan
              /\ next.step = kind /\ next.projectId = id
              /\ thunk' = (thunk \ {t}) \union {next}
              /\ \A q \in open' : q \in rest \/ Asks(next, q)
              /\ kind # "manager" => \A p, q \in open' : p \in rest \/ q \in rest \/ p = q
<1>1. t \in Thunk /\ id \in Project
  BY DEF Core, TypeOK
<1>2. PICK next : next = [t EXCEPT !.projectId = id, !.step = kind]
  OBVIOUS
<1>3. /\ next \in Thunk
      /\ next.by = t.by /\ next.try = t.try /\ next.name = t.name /\ next.plan = t.plan
      /\ next.step = kind /\ next.projectId = id
  BY <1>1, <1>2 DEF Thunk
<1>4. /\ thunk' = (thunk \ {t}) \union {next}
      /\ open' = rest \union {Send(next, kind, m) :
                                m \in IF kind = "manager" THEN t.plan.admins ELSE {NoManager}}
  BY <1>2 DEF Called, goes_on
<1>5. t.plan.admins \subseteq Manager
  BY <1>1 DEF Thunk, Plan
<1>6. \A q \in open' : q \in rest \/ Asks(next, q)
  BY <1>3, <1>4, <1>5, SendAsks
<1>7. kind # "manager" => \A p, q \in open' : p \in rest \/ q \in rest \/ p = q
  BY <1>4
<1> QED
  BY <1>3, <1>4, <1>6, <1>7

\* How a request is left.
LEMMA LeftIs ==
  ASSUME Core, NEW t, NEW rest, Left(t, rest), NEW q \in rest
  PROVE  /\ q \in Request
         /\ q.live => q \in open
         /\ \E o \in open : /\ o.kind = q.kind /\ o.by = q.by /\ o.try = q.try /\ o.id = q.id
                            /\ o.name = q.name /\ o.plan = q.plan /\ o.admin = q.admin
                            /\ o.step = q.step /\ o.task = q.task
<1>1. open \subseteq Request
  BY DEF Core, TypeOK
<1>2. CASE q \in open
  BY <1>1, <1>2
<1>3. CASE \E o \in open : q = Muted(o)
  <2>1. PICK o \in open : q = Muted(o)
    BY <1>3
  <2>2. /\ q \in Request /\ ~q.live
        /\ o.kind = q.kind /\ o.by = q.by /\ o.try = q.try /\ o.id = q.id
        /\ o.name = q.name /\ o.plan = q.plan /\ o.admin = q.admin
        /\ o.step = q.step /\ o.task = q.task
    BY <1>1, <2>1 DEF Request, Muted
  <2> QED
    BY <2>2
<1> QED
  BY <1>2, <1>3 DEF Left

\* What a turn of a submission does with requests and submissions.
Advances(t, rest) ==
  \/ Ended(t, rest)
  \/ open' = rest /\ UNCHANGED thunk
  \/ \E id \in created, kind \in Kind \ {"create"} : Called(t, id, kind, rest)

LEMMA AdvanceRequests ==
  ASSUME Core, NEW t \in thunk, NEW rest, Left(t, rest), Advances(t, rest), created' = created
  PROVE  open' \subseteq Request /\ thunk' \subseteq Thunk /\ Requests'
<1>1. open \subseteq Request /\ thunk \subseteq Thunk /\ t \in Thunk
  BY DEF Core, TypeOK
<1>2. \A q \in rest :
        /\ q \in Request
        /\ q.kind # "create" \/ q.step \in {"row", "ok"} => q.id \in created'
        /\ q.by # Staff \/ q.kind = "delete"
        /\ q.task => q.kind = "generate" /\ ~q.live
        /\ q.kind = "manager" => q.admin \in Manager
  <2>1. SUFFICES ASSUME NEW q \in rest
                 PROVE  /\ q \in Request
                        /\ q.kind # "create" \/ q.step \in {"row", "ok"} => q.id \in created'
                        /\ q.by # Staff \/ q.kind = "delete"
                        /\ q.task => q.kind = "generate" /\ ~q.live
                        /\ q.kind = "manager" => q.admin \in Manager
    OBVIOUS
  <2>2. PICK o \in open : /\ o.kind = q.kind /\ o.by = q.by /\ o.try = q.try /\ o.id = q.id
                          /\ o.name = q.name /\ o.plan = q.plan /\ o.admin = q.admin
                          /\ o.step = q.step /\ o.task = q.task
    BY LeftIs
  <2>3. q \in Request /\ (q.live => q \in open)
    BY LeftIs
  <2>4. /\ o.kind # "create" \/ o.step \in {"row", "ok"} => o.id \in created
        /\ o.by # Staff \/ o.kind = "delete"
        /\ o.task => o.kind = "generate"
        /\ o.kind = "manager" => o.admin \in Manager
    BY DEF Core, Requests
  <2>5. q.task => ~q.live
    BY <2>3 DEF Core, Requests
  <2> QED
    BY <2>2, <2>3, <2>4, <2>5
<1>3. CASE open' = rest /\ thunk' \subseteq thunk
  BY <1>1, <1>2, <1>3 DEF Requests
<1>4. CASE \E id \in created, kind \in Kind \ {"create"} : Called(t, id, kind, rest)
  <2>1. PICK id \in created, kind \in Kind \ {"create"} : Called(t, id, kind, rest)
    BY <1>4
  <2>2. PICK next \in Thunk :
              /\ next.by = t.by /\ next.step = kind /\ next.projectId = id
              /\ thunk' = (thunk \ {t}) \union {next}
              /\ \A q \in open' : q \in rest \/ Asks(next, q)
    BY <2>1, CalledIs
  <2>3. t.by # Staff
    BY <1>1, CreationAssumption DEF Thunk
  <2>4. ASSUME NEW q, Asks(next, q)
        PROVE  /\ q \in Request /\ q.id \in created' /\ q.by # Staff /\ ~q.task
               /\ q.kind = "manager" => q.admin \in Manager
    BY <2>2, <2>3, <2>4 DEF Asks
  <2> QED
    BY <1>1, <1>2, <2>2, <2>4 DEF Requests
<1> QED
  BY <1>3, <1>4 DEF Advances, Ended

LEMMA AdvanceHeard ==
  ASSUME Core, NEW t \in thunk, NEW rest, Left(t, rest), Advances(t, rest), created' = created,
         \A b \in Browser : wizard'[b].tries = wizard[b].tries
  PROVE  Heard'
<1>0. Heard /\ thunk \subseteq Thunk /\ (\A u \in thunk : u.by \in Browser)
  BY ThunkFields DEF Core, TypeOK
<1>1. \A q \in rest : q.live => q \in open
  BY LeftIs
<1>2. CASE open' = rest /\ UNCHANGED thunk
  BY <1>0, <1>1, <1>2 DEF Heard
<1>3. CASE Ended(t, rest)
  BY <1>0, <1>1, <1>3 DEF Heard, Ended, Quiet
<1>4. CASE \E id \in created, kind \in Kind \ {"create"} : Called(t, id, kind, rest)
  <2>1. PICK id \in created, kind \in Kind \ {"create"} : Called(t, id, kind, rest)
    BY <1>4
  <2>2. PICK next \in Thunk :
              /\ next.by = t.by /\ next.try = t.try /\ next.name = t.name /\ next.plan = t.plan
              /\ next.step = kind /\ next.projectId = id
              /\ thunk' = (thunk \ {t}) \union {next}
              /\ \A q \in open' : q \in rest \/ Asks(next, q)
              /\ kind # "manager" => \A p, q \in open' : p \in rest \/ q \in rest \/ p = q
    BY <2>1, CalledIs
  <2>3. Quiet(t, rest)
    BY <2>1 DEF Called
  <2>4. \A u, v \in thunk' : u.by = v.by /\ u.try = v.try => u = v
    BY <1>0, <2>2 DEF Heard
  <2>5. \A u \in thunk' : /\ u.try <= wizard'[u.by].tries
                          /\ u.step # "create" => u.projectId \in created'
                          /\ u.step = "create" => u.projectId = NoProject
    BY <1>0, <2>2 DEF Heard
  <2>6. ASSUME NEW q \in open', q.live
        PROVE  \E u \in thunk' : /\ u.by = q.by /\ u.try = q.try /\ u.step = q.kind /\ u.plan = q.plan
                                 /\ q.kind # "create" => q.id = u.projectId
    <3>1. CASE q \in rest
      <4>1. PICK u \in thunk : /\ u.by = q.by /\ u.try = q.try /\ u.step = q.kind /\ u.plan = q.plan
                               /\ q.kind # "create" => q.id = u.projectId
        BY <1>0, <1>1, <2>6, <3>1 DEF Heard
      <4>2. u # t
        BY <2>3, <2>6, <3>1, <4>1 DEF Quiet
      <4> QED
        BY <2>2, <4>1, <4>2
    <3>2. CASE Asks(next, q)
      BY <2>2, <3>2 DEF Asks
    <3> QED
      BY <2>2, <3>1, <3>2
  <2>7. ASSUME NEW p \in open', NEW q \in open', p.live, q.live, p.by = q.by, p.try = q.try, p.kind # "manager"
        PROVE  p = q
    <3>1. CASE p \in rest /\ q \in rest
      BY <1>0, <1>1, <2>7, <3>1 DEF Heard
    <3>2. CASE p \in rest /\ q \notin rest
      BY <2>2, <2>3, <2>7, <3>2 DEF Quiet, Asks
    <3>3. CASE p \notin rest /\ q \in rest
      BY <2>2, <2>3, <2>7, <3>3 DEF Quiet, Asks
    <3>4. CASE p \notin rest /\ q \notin rest
      <4>1. kind # "manager"
        BY <2>2, <2>7, <3>4 DEF Asks
      <4> QED
        BY <2>2, <3>4, <4>1
    <3> QED
      BY <3>1, <3>2, <3>3, <3>4
  <2> QED
    BY <2>4, <2>5, <2>6, <2>7 DEF Heard
<1> QED
  BY <1>2, <1>3, <1>4 DEF Advances

LEMMA TurnAdvances ==
  ASSUME Core, NEW t \in thunk, NEW r \in open, Waits(t, r), NEW rest, Turned(t, r, rest)
  PROVE  Advances(t, rest)
<1>1. t.step # "create" => t.projectId \in created
  BY ThunkFields
<1>2. r.kind = "create" /\ r.step = "ok" => r.id \in created
  BY DEF Core, Requests
<1> QED
  BY <1>1, <1>2 DEF Turned, Created, Proceeded, GaveUp, Stopped, Generated, Assigned, Deleted, Advances,
                    Waits, Kind

LEMMA Truth == ASSUME NEW P \in BOOLEAN, NEW Q \in BOOLEAN PROVE (P \/ Q) \in BOOLEAN
OBVIOUS

\* The entries of the slice that a turn may write.
LEMMA Edits ==
  ASSUME NEW w \in Wizard, NEW e \in BOOLEAN, NEW m \in BOOLEAN, NEW p \in Project \union {NoProject}
  PROVE  /\ [w EXCEPT !.projectDetailsResponse = p] \in Wizard
         /\ [w EXCEPT !.generateProjectError = e] \in Wizard
         /\ [w EXCEPT !.generateProjectError = TRUE, !.projectDetailsLoading = FALSE] \in Wizard
         /\ [w EXCEPT !.generateProjectSuccess = TRUE, !.generateProjectWarning = m,
                      !.generateProjectError = e] \in Wizard
         /\ [w EXCEPT !.generateProjectError = TRUE, !.projectDetailsLoading = FALSE,
                      !.failed = p] \in Wizard
BY DEF Wizard

\* Whether two submissions meet in the slice, as a value.
LEMMA MeetingTruth ==
  ASSUME NEW b, NEW P \in BOOLEAN, NEW Q \in BOOLEAN
  PROVE  (P \/ Making(b) \/ Q) \in BOOLEAN
OBVIOUS

\* The effect of SplitTasks runs with a slice that, but for what may be said of the rest, is as it was.
Kept(b) ==
  /\ wizard'[b].projectDetailsResponse = wizard[b].projectDetailsResponse
  /\ wizard'[b].generateProjectSuccess = wizard[b].generateProjectSuccess
  /\ wizard'[b].generateProjectWarning = wizard[b].generateProjectWarning
  /\ \A d \in wizard'[b].redirects :
       \/ d \in wizard[b].redirects
       \/ /\ wizard[b].generateProjectSuccess
          /\ d.id = wizard[b].projectDetailsResponse /\ d.warning = wizard[b].generateProjectWarning

Steady(b) ==
  /\ wizard'[b].projectDetailsLoading = wizard[b].projectDetailsLoading
  /\ wizard'[b].failed = wizard[b].failed
  /\ wizard'[b].mixed = wizard[b].mixed

\* Nothing of the other wizards changes.
Alone(b) ==
  /\ wizard' \in [Browser -> Wizard]
  /\ \A c \in Browser : c # b => wizard'[c] = wizard[c]
  /\ wizard'[b].tries = wizard[b].tries

LEMMA CreatedEffect ==
  ASSUME Core, NEW t \in thunk, NEW r \in open, Waits(t, r), NEW rest, Created(t, r, rest)
  PROVE  /\ Alone(t.by) /\ Steady(t.by)
         /\ wizard'[t.by].projectDetailsResponse = r.id
         /\ wizard'[t.by].generateProjectSuccess = wizard[t.by].generateProjectSuccess
         /\ \A d \in wizard'[t.by].redirects :
              d \in wizard[t.by].redirects \/ wizard[t.by].generateProjectSuccess
<1>1. wizard[t.by] \in Wizard /\ r.id \in Project /\ TypeOK /\ t.by \in Browser
  BY ThunkFields, IdMade DEF Core, TypeOK, Created, Waits
<1>2. PICK new : new = [wizard[t.by] EXCEPT !.projectDetailsResponse = r.id]
  OBVIOUS
<1>3. new \in Wizard /\ show(t.by, new)
  BY <1>1, <1>2, Edits DEF Created
<1>4. /\ new.tries = wizard[t.by].tries /\ new.projectDetailsResponse = r.id
      /\ new.failed = wizard[t.by].failed /\ new.redirects = wizard[t.by].redirects
  BY <1>1, <1>2 DEF Wizard
<1>5. /\ new.projectDetailsLoading = wizard[t.by].projectDetailsLoading
      /\ new.generateProjectSuccess = wizard[t.by].generateProjectSuccess
      /\ new.mixed = wizard[t.by].mixed
  BY <1>1, <1>2 DEF Wizard
<1>6. /\ wizard' \in [Browser -> Wizard]
      /\ \A c \in Browser : c # t.by => wizard'[c] = wizard[c]
      /\ wizard'[t.by].tries = new.tries
      /\ wizard'[t.by].projectDetailsResponse = new.projectDetailsResponse
      /\ wizard'[t.by].failed = new.failed
      /\ \A d \in wizard'[t.by].redirects : d \in new.redirects \/ new.generateProjectSuccess
  BY <1>1, <1>3, Shown
<1>7. /\ wizard'[t.by].projectDetailsLoading = new.projectDetailsLoading
      /\ wizard'[t.by].generateProjectSuccess = new.generateProjectSuccess
      /\ wizard'[t.by].mixed = new.mixed
  BY <1>1, <1>3, ShownFlags
<1>8. Alone(t.by) /\ wizard'[t.by].projectDetailsResponse = r.id
  BY <1>4, <1>6 DEF Alone
<1>9. \A d \in wizard'[t.by].redirects :
        d \in wizard[t.by].redirects \/ wizard[t.by].generateProjectSuccess
  BY <1>4, <1>5, <1>6, Zenon
<1>10. wizard'[t.by].projectDetailsLoading = wizard[t.by].projectDetailsLoading /\ wizard'[t.by].mixed = wizard[t.by].mixed
       /\ wizard'[t.by].generateProjectSuccess = wizard[t.by].generateProjectSuccess
  BY <1>5, <1>7, Zenon
<1>11. wizard'[t.by].failed = wizard[t.by].failed
  BY <1>4, <1>6
<1> QED
  BY <1>8, <1>9, <1>10, <1>11, Zenon DEF Steady

LEMMA GeneratedWrites ==
  ASSUME Core, NEW t \in thunk, NEW r \in open, Waits(t, r), NEW rest, Generated(t, r, rest)
  PROVE  \E new \in Wizard :
           /\ show(t.by, new)
           /\ \E e \in BOOLEAN : new = [wizard[t.by] EXCEPT !.generateProjectSuccess = TRUE,
                                                            !.generateProjectWarning = @ \/ t.plan.big,
                                                            !.generateProjectError = e]
<1>1. wizard[t.by] \in Wizard /\ t.plan \in Plan
  BY ThunkFields DEF Core, TypeOK
<1>2. wizard[t.by].generateProjectWarning \in BOOLEAN /\ t.plan.big \in BOOLEAN
  BY <1>1 DEF Wizard, Plan
<1>3. PICK m \in BOOLEAN : m = (wizard[t.by].generateProjectWarning \/ t.plan.big)
  BY <1>2, Truth, Zenon
<1>4. PICK e \in BOOLEAN : show(t.by, [wizard[t.by] EXCEPT !.generateProjectSuccess = TRUE,
                                                 !.generateProjectWarning = @ \/ t.plan.big,
                                                 !.generateProjectError = e])
  BY DEF Generated
<1>5. PICK new : new = [wizard[t.by] EXCEPT !.generateProjectSuccess = TRUE, !.generateProjectWarning = m,
                                            !.generateProjectError = e]
  OBVIOUS
<1>6. new \in Wizard
  BY <1>1, <1>5, Edits
<1>7. new = [wizard[t.by] EXCEPT !.generateProjectSuccess = TRUE,
                                 !.generateProjectWarning = @ \/ t.plan.big,
                                 !.generateProjectError = e]
  BY <1>3, <1>5, Zenon
<1> QED
  BY <1>4, <1>6, <1>7, Zenon

\* A slice is shown in which at most the error and loading flags and the history differ.
LEMMA KeptEffect ==
  ASSUME Core, NEW b \in Browser, NEW new \in Wizard, show(b, new),
         new.tries = wizard[b].tries, new.redirects = wizard[b].redirects,
         new.projectDetailsResponse = wizard[b].projectDetailsResponse,
         new.generateProjectSuccess = wizard[b].generateProjectSuccess,
         new.generateProjectWarning = wizard[b].generateProjectWarning
  PROVE  Alone(b) /\ Kept(b)
<1>1. TypeOK
  BY DEF Core
<1>2. /\ wizard' \in [Browser -> Wizard]
      /\ \A c \in Browser : c # b => wizard'[c] = wizard[c]
      /\ wizard'[b].tries = new.tries
      /\ wizard'[b].projectDetailsResponse = new.projectDetailsResponse
      /\ \A d \in wizard'[b].redirects :
              \/ d \in new.redirects
              \/ /\ new.generateProjectSuccess
                 /\ d.id = new.projectDetailsResponse
                 /\ d.warning = new.generateProjectWarning
  BY <1>1, Shown
<1>3. /\ wizard'[b].generateProjectSuccess = new.generateProjectSuccess
      /\ wizard'[b].generateProjectWarning = new.generateProjectWarning
  BY <1>1, ShownFlags
<1>4. Alone(b)
  BY <1>2 DEF Alone
<1>5. Kept(b)
  BY <1>2, <1>3, Zenon DEF Kept
<1> QED
  BY <1>4, <1>5

LEMMA ErrorEffect ==
  ASSUME Core, NEW b \in Browser, NEW e \in BOOLEAN,
         show(b, [wizard[b] EXCEPT !.generateProjectError = e])
  PROVE  Alone(b) /\ Kept(b) /\ Steady(b)
<1>1. wizard[b] \in Wizard /\ TypeOK
  BY DEF Core, TypeOK
<1>2. PICK new : new = [wizard[b] EXCEPT !.generateProjectError = e]
  OBVIOUS
<1>3. new \in Wizard /\ show(b, new)
  BY <1>1, <1>2, Edits
<1>4. /\ new.tries = wizard[b].tries /\ new.projectDetailsResponse = wizard[b].projectDetailsResponse
      /\ new.failed = wizard[b].failed /\ new.redirects = wizard[b].redirects
      /\ new.projectDetailsLoading = wizard[b].projectDetailsLoading
      /\ new.generateProjectSuccess = wizard[b].generateProjectSuccess
      /\ new.generateProjectWarning = wizard[b].generateProjectWarning
      /\ new.mixed = wizard[b].mixed
  BY <1>1, <1>2 DEF Wizard
<1>5. Alone(b) /\ Kept(b)
  BY <1>3, <1>4, KeptEffect
<1>6. /\ wizard'[b].projectDetailsLoading = new.projectDetailsLoading
      /\ wizard'[b].mixed = new.mixed
  BY <1>1, <1>3, ShownFlags
<1>7. wizard'[b].failed = new.failed
  BY <1>1, <1>3, Shown
<1>8. Steady(b)
  BY <1>4, <1>6, <1>7, Zenon DEF Steady
<1> QED
  BY <1>5, <1>8

LEMMA StoppedEffect ==
  ASSUME Core, NEW t \in thunk, NEW rest, Stopped(t, rest)
  PROVE  /\ Alone(t.by) /\ Kept(t.by)
         /\ wizard'[t.by].failed = wizard[t.by].failed /\ wizard'[t.by].mixed = wizard[t.by].mixed
<1>1. t.by \in Browser /\ wizard[t.by] \in Wizard /\ TypeOK
  BY ThunkFields DEF Core, TypeOK
<1>2. PICK new : new = [wizard[t.by] EXCEPT !.generateProjectError = TRUE, !.projectDetailsLoading = FALSE]
  OBVIOUS
<1>3. new \in Wizard /\ show(t.by, new)
  BY <1>1, <1>2, Edits DEF Stopped
<1>4. /\ new.tries = wizard[t.by].tries /\ new.projectDetailsResponse = wizard[t.by].projectDetailsResponse
      /\ new.failed = wizard[t.by].failed /\ new.redirects = wizard[t.by].redirects
      /\ new.generateProjectSuccess = wizard[t.by].generateProjectSuccess
      /\ new.generateProjectWarning = wizard[t.by].generateProjectWarning
      /\ new.mixed = wizard[t.by].mixed
  BY <1>1, <1>2 DEF Wizard
<1>5. Alone(t.by) /\ Kept(t.by)
  BY <1>1, <1>3, <1>4, KeptEffect
<1>6. wizard'[t.by].mixed = new.mixed
  BY <1>1, <1>3, ShownFlags
<1>7. wizard'[t.by].failed = new.failed
  BY <1>1, <1>3, Shown
<1> QED
  BY <1>4, <1>5, <1>6, <1>7, Zenon

LEMMA DeletedEffect ==
  ASSUME Core, NEW t \in thunk, NEW r \in open, Waits(t, r), NEW rest, Deleted(t, r, rest)
  PROVE  /\ Alone(t.by) /\ Kept(t.by)
         /\ wizard'[t.by].mixed = wizard[t.by].mixed
         /\ Steady(t.by) \/ (~Unfinished(r) /\ wizard'[t.by].failed = t.projectId)
<1>1. /\ t.by \in Browser /\ wizard[t.by] \in Wizard /\ TypeOK /\ wizard \in [Browser -> Wizard]
      /\ t.projectId \in Project \union {NoProject}
  BY ThunkFields DEF Core, TypeOK
<1>2. CASE UNCHANGED wizard
  BY <1>1, <1>2 DEF Alone, Kept, Steady
<1>3. CASE ~UNCHANGED wizard
  <2>1. PICK new : new = [wizard[t.by] EXCEPT !.generateProjectError = TRUE, !.projectDetailsLoading = FALSE,
                                              !.failed = t.projectId]
    OBVIOUS
  <2>2. new \in Wizard /\ show(t.by, new) /\ ~Unfinished(r)
    BY <1>1, <1>3, <2>1, Edits DEF Deleted
  <2>3. /\ new.tries = wizard[t.by].tries /\ new.projectDetailsResponse = wizard[t.by].projectDetailsResponse
        /\ new.failed = t.projectId /\ new.redirects = wizard[t.by].redirects
        /\ new.generateProjectSuccess = wizard[t.by].generateProjectSuccess
        /\ new.generateProjectWarning = wizard[t.by].generateProjectWarning
        /\ new.mixed = wizard[t.by].mixed
    BY <1>1, <2>1 DEF Wizard
  <2>4. Alone(t.by) /\ Kept(t.by)
    BY <1>1, <2>2, <2>3, KeptEffect
  <2>5. wizard'[t.by].mixed = new.mixed
    BY <1>1, <2>2, ShownFlags
  <2>6. wizard'[t.by].failed = new.failed
    BY <1>1, <2>2, Shown
  <2> QED
    BY <2>2, <2>3, <2>4, <2>5, <2>6, Zenon
<1> QED
  BY <1>2, <1>3

LEMMA GeneratedEffect ==
  ASSUME Core, NEW t \in thunk, NEW r \in open, Waits(t, r), NEW rest, Generated(t, r, rest)
  PROVE  /\ Alone(t.by) /\ Steady(t.by)
         /\ wizard'[t.by].projectDetailsResponse = wizard[t.by].projectDetailsResponse
         /\ wizard'[t.by].generateProjectWarning = (wizard[t.by].generateProjectWarning \/ t.plan.big)
         /\ \A d \in wizard'[t.by].redirects :
              \/ d \in wizard[t.by].redirects
              \/ /\ d.id = wizard[t.by].projectDetailsResponse
                 /\ d.warning = wizard'[t.by].generateProjectWarning
<1>1. t.by \in Browser /\ wizard[t.by] \in Wizard /\ TypeOK
  BY ThunkFields DEF Core, TypeOK
<1>2. PICK new \in Wizard :
           /\ show(t.by, new)
           /\ \E e \in BOOLEAN : new = [wizard[t.by] EXCEPT !.generateProjectSuccess = TRUE,
                                                            !.generateProjectWarning = @ \/ t.plan.big,
                                                            !.generateProjectError = e]
  BY GeneratedWrites
<1>3. /\ new.tries = wizard[t.by].tries /\ new.projectDetailsResponse = wizard[t.by].projectDetailsResponse
      /\ new.failed = wizard[t.by].failed /\ new.redirects = wizard[t.by].redirects
      /\ new.projectDetailsLoading = wizard[t.by].projectDetailsLoading
      /\ new.mixed = wizard[t.by].mixed
  BY <1>1, <1>2 DEF Wizard
<1>4. new.generateProjectWarning = (wizard[t.by].generateProjectWarning \/ t.plan.big)
  BY <1>1, <1>2 DEF Wizard
<1>5. /\ wizard' \in [Browser -> Wizard]
      /\ \A c \in Browser : c # t.by => wizard'[c] = wizard[c]
      /\ wizard'[t.by].tries = new.tries
      /\ wizard'[t.by].projectDetailsResponse = new.projectDetailsResponse
      /\ wizard'[t.by].failed = new.failed
      /\ \A d \in wizard'[t.by].redirects :
              \/ d \in new.redirects
              \/ /\ new.generateProjectSuccess
                 /\ d.id = new.projectDetailsResponse
                 /\ d.warning = new.generateProjectWarning
  BY <1>1, <1>2, Shown
<1>6. /\ wizard'[t.by].projectDetailsLoading = new.projectDetailsLoading
      /\ wizard'[t.by].mixed = new.mixed
      /\ wizard'[t.by].generateProjectWarning = new.generateProjectWarning
  BY <1>1, <1>2, ShownFlags
<1>7. Alone(t.by)
  BY <1>3, <1>5 DEF Alone
<1>8. Steady(t.by)
  BY <1>3, <1>5, <1>6, Zenon DEF Steady
<1> QED
  BY <1>3, <1>4, <1>5, <1>6, <1>7, <1>8, Zenon

LEMMA TurnAlone ==
  ASSUME Core, NEW t \in thunk, NEW r \in open, Waits(t, r), NEW rest, Turned(t, r, rest)
  PROVE  Alone(t.by)
<1>1. t.by \in Browser /\ wizard \in [Browser -> Wizard]
  BY ThunkFields DEF Core, TypeOK
<1>2. UNCHANGED wizard => Alone(t.by)
  BY <1>1 DEF Alone
<1>3. \A e \in BOOLEAN : show(t.by, [wizard[t.by] EXCEPT !.generateProjectError = e]) => Alone(t.by)
  BY <1>1, ErrorEffect
<1>4. CASE Created(t, r, rest)
  BY <1>4, CreatedEffect
<1>5. CASE Proceeded(t, rest)
  BY <1>2, <1>5 DEF Proceeded
<1>6. CASE GaveUp(t, rest)
  BY <1>3, <1>6, Zenon DEF GaveUp
<1>7. CASE Stopped(t, rest)
  BY <1>7, StoppedEffect
<1>8. CASE Generated(t, r, rest)
  BY <1>8, GeneratedEffect
<1>9. CASE Assigned(t, rest)
  <2>1. CASE UNCHANGED wizard
    BY <1>2, <2>1
  <2>2. CASE show(t.by, [wizard[t.by] EXCEPT !.generateProjectError = FALSE])
    BY <1>3, <2>2
  <2> QED
    BY <1>9, <2>1, <2>2 DEF Assigned
<1>10. CASE Deleted(t, r, rest)
  BY <1>10, DeletedEffect
<1> QED
  BY <1>4, <1>5, <1>6, <1>7, <1>8, <1>9, <1>10 DEF Turned

LEMMA TurnUnchanged ==
  ASSUME Core, NEW r \in open, receive(r) \/ lose(r)
  PROVE  /\ UNCHANGED <<projects, odk, s3, created, condemned, faults>>
         /\ losses' \in Nat /\ losses' >= losses /\ faults + losses' <= MaxTroubles
         /\ losses' = 0 => receive(r)
<1>1. faults \in Nat /\ losses \in Nat /\ faults + losses <= MaxTroubles /\ MaxTroubles \in Nat
  BY CreationAssumption DEF Core, TypeOK
<1>2. CASE receive(r)
  BY <1>1, <1>2 DEF receive, central
<1>3. CASE lose(r)
  BY <1>1, <1>3 DEF lose, central
<1> QED
  BY <1>2, <1>3

LEMMA TurnCore ==
  ASSUME Core, NEW r \in open, receive(r) \/ lose(r)
  PROVE  Core'
<1>1. PICK t \in thunk : \E rest : Waits(t, r) /\ Left(t, rest) /\ Turned(t, r, rest)
  BY Turns
<1>2. PICK rest : Waits(t, r) /\ Left(t, rest) /\ Turned(t, r, rest)
  BY <1>1
<1>3. Advances(t, rest) /\ Alone(t.by) /\ t.by \in Browser
  BY <1>2, TurnAdvances, TurnAlone, ThunkFields
<1>4. /\ UNCHANGED <<projects, odk, s3, created, condemned, faults>>
      /\ losses' \in Nat /\ faults + losses' <= MaxTroubles
  BY TurnUnchanged
<1>5. open' \subseteq Request /\ thunk' \subseteq Thunk /\ Requests'
  BY <1>2, <1>3, <1>4, AdvanceRequests
<1>6. wizard' \in [Browser -> Wizard] /\ \A b \in Browser : wizard'[b].tries = wizard[b].tries
  BY <1>3 DEF Alone
<1>7. Heard'
  BY <1>2, <1>3, <1>4, <1>6, AdvanceHeard
<1>8. TypeOK'
  BY <1>4, <1>5, <1>6 DEF Core, TypeOK
<1>9. Made'
  BY <1>4 DEF Core, Made, Exists
<1> QED
  BY <1>5, <1>7, <1>8, <1>9 DEF Core

-----------------------------------------------------------------------------
(* The wizard is used: submitted, left, opened again, redirected by a delay. *)

LEMMA SubmitEffect ==
  ASSUME Core, NEW b \in Browser, NEW n \in Name, NEW plan \in Plans, submit(b, n, plan)
  PROVE  /\ wizard' \in [Browser -> Wizard]
         /\ \A c \in Browser : c # b => wizard'[c] = wizard[c]
         /\ wizard'[b].tries = wizard[b].tries + 1 /\ wizard[b].tries \in Nat /\ wizard[b].tries < MaxTries
         /\ wizard'[b].failed = NoProject
         /\ wizard'[b].mixed = (wizard[b].mixed \/ Making(b) \/ wizard[b].generateProjectSuccess)
         /\ Kept(b)
<1>1. /\ wizard[b] \in Wizard /\ TypeOK /\ wizard[b].tries \in 0..MaxTries /\ wizard[b].tries < MaxTries
      /\ MaxTries \in Nat
  BY CreationAssumption DEF Core, TypeOK, Wizard, submit
<1>2. wizard[b].mixed \in BOOLEAN /\ wizard[b].generateProjectSuccess \in BOOLEAN
  BY <1>1 DEF Wizard
<1>3. PICK m \in BOOLEAN : m = (wizard[b].mixed \/ Making(b) \/ wizard[b].generateProjectSuccess)
  BY <1>2, MeetingTruth, Zenon
<1>4. PICK new : new = [wizard[b] EXCEPT !.tries = @ + 1, !.projectDetailsLoading = TRUE,
                                         !.failed = NoProject, !.mixed = m]
  OBVIOUS
<1>5. wizard[b].tries + 1 \in 0..MaxTries
  BY <1>1
<1>6. new \in Wizard
  BY <1>1, <1>4, <1>5 DEF Wizard
<1>7. show(b, new)
  <2>1. new = [wizard[b] EXCEPT !.tries = @ + 1, !.projectDetailsLoading = TRUE, !.failed = NoProject,
                                !.mixed = @ \/ Making(b) \/ wizard[b].generateProjectSuccess]
    BY <1>3, <1>4, Zenon
  <2> QED
    BY <2>1, Zenon DEF submit
<1>8. /\ new.tries = wizard[b].tries + 1 /\ new.projectDetailsResponse = wizard[b].projectDetailsResponse
      /\ new.failed = NoProject /\ new.redirects = wizard[b].redirects
      /\ new.generateProjectSuccess = wizard[b].generateProjectSuccess
      /\ new.generateProjectWarning = wizard[b].generateProjectWarning
      /\ new.mixed = m
  BY <1>1, <1>4 DEF Wizard
<1>9. /\ wizard' \in [Browser -> Wizard]
      /\ \A c \in Browser : c # b => wizard'[c] = wizard[c]
      /\ wizard'[b].tries = new.tries
      /\ wizard'[b].failed = new.failed
      /\ wizard'[b].projectDetailsResponse = new.projectDetailsResponse
      /\ \A d \in wizard'[b].redirects :
              \/ d \in new.redirects
              \/ /\ new.generateProjectSuccess
                 /\ d.id = new.projectDetailsResponse
                 /\ d.warning = new.generateProjectWarning
  BY <1>1, <1>6, <1>7, Shown
<1>10. /\ wizard'[b].generateProjectSuccess = new.generateProjectSuccess
       /\ wizard'[b].generateProjectWarning = new.generateProjectWarning
       /\ wizard'[b].mixed = new.mixed
  BY <1>1, <1>6, <1>7, ShownFlags
<1>11. Kept(b)
  BY <1>8, <1>9, <1>10, Zenon DEF Kept
<1>12. wizard'[b].mixed = (wizard[b].mixed \/ Making(b) \/ wizard[b].generateProjectSuccess)
  BY <1>3, <1>8, <1>10, Zenon
<1>13. wizard'[b].tries = wizard[b].tries + 1 /\ wizard'[b].failed = NoProject /\ wizard[b].tries \in Nat
  BY <1>1, <1>8, <1>9
<1> QED
  BY <1>1, <1>9, <1>11, <1>12, <1>13

LEMMA SubmitAsks ==
  ASSUME Core, NEW b \in Browser, NEW n \in Name, NEW plan \in Plans, submit(b, n, plan)
  PROVE  \E t \in Thunk, q \in Request :
           /\ t.by = b /\ t.try = wizard[b].tries + 1 /\ t.plan = plan /\ t.name = n /\ t.step = "create"
           /\ t.projectId = NoProject
           /\ Asks(t, q)
           /\ thunk' = thunk \union {t} /\ open' = open \union {q}
<1>1. PICK t : t = [by |-> b, try |-> wizard[b].tries + 1, name |-> n, plan |-> plan,
                    step |-> "create", projectId |-> NoProject]
  OBVIOUS
<1>2. wizard[b].tries + 1 \in 1..MaxTries /\ plan \in Plan
  BY SubmitEffect, CreationAssumption
<1>3. /\ t \in Thunk /\ t.by = b /\ t.try = wizard[b].tries + 1 /\ t.plan = plan /\ t.name = n
      /\ t.step = "create" /\ t.projectId = NoProject
  BY <1>1, <1>2 DEF Thunk, Kind
<1>4. PICK q : q = Send(t, "create", NoManager)
  OBVIOUS
<1>5. Asks(t, q)
  BY <1>3, <1>4, SendAsks
<1>6. thunk' = thunk \union {t} /\ open' = open \union {q}
  BY <1>1, <1>4 DEF submit
<1> QED
  BY <1>3, <1>5, <1>6 DEF Asks

LEMMA SubmitCore ==
  ASSUME Core, NEW b \in Browser, NEW n \in Name, NEW plan \in Plans, submit(b, n, plan)
  PROVE  Core'
<1>0. TypeOK /\ Requests /\ Heard /\ (\A t \in thunk : t.by \in Browser /\ t.try \in Nat)
      /\ (\A c \in Browser : wizard[c].tries \in Nat)
  BY ThunkFields, WizardFields, CreationAssumption DEF Core
<1>1. /\ wizard' \in [Browser -> Wizard]
      /\ \A c \in Browser : c # b => wizard'[c] = wizard[c]
      /\ wizard'[b].tries = wizard[b].tries + 1
  BY SubmitEffect
<1>2. PICK t \in Thunk, q \in Request :
           /\ t.by = b /\ t.try = wizard[b].tries + 1 /\ t.plan = plan /\ t.step = "create"
           /\ t.projectId = NoProject
           /\ Asks(t, q)
           /\ thunk' = thunk \union {t} /\ open' = open \union {q}
  BY SubmitAsks
<1>3. UNCHANGED <<projects, odk, s3, created, condemned, faults, losses>>
  BY DEF submit, central
<1>4. TypeOK'
  BY <1>0, <1>1, <1>2, <1>3 DEF TypeOK
<1>5. Requests'
  <2>1. b # Staff /\ q.kind = "create" /\ q.step = "sent" /\ q.by = b /\ ~q.task
    BY <1>2, CreationAssumption DEF Asks
  <2> QED
    BY <1>0, <1>2, <1>3, <2>1 DEF Requests
<1>6. \A u \in thunk : u.by = b => u.try < t.try
  BY <1>0, <1>2 DEF Heard
<1>7. \A p \in open : p.live /\ p.by = b => p.try < t.try
  BY <1>0, <1>6 DEF Heard
<1>8. Heard'
  <2>1. \A u, v \in thunk' : u.by = v.by /\ u.try = v.try => u = v
    BY <1>0, <1>2, <1>6 DEF Heard
  <2>2. \A u \in thunk' : /\ u.try <= wizard'[u.by].tries
                          /\ u.step # "create" => u.projectId \in created'
                          /\ u.step = "create" => u.projectId = NoProject
    <3>1. ASSUME NEW u \in thunk
          PROVE  /\ u.try <= wizard'[u.by].tries
                 /\ u.step # "create" => u.projectId \in created'
                 /\ u.step = "create" => u.projectId = NoProject
      <4>1. u.try <= wizard[u.by].tries
        BY <1>0 DEF Heard
      <4>2. wizard'[u.by].tries = wizard[u.by].tries \/ wizard'[u.by].tries = wizard[u.by].tries + 1
        BY <1>0, <1>1
      <4> QED
        BY <1>0, <1>3, <4>1, <4>2 DEF Heard
    <3> QED
      BY <1>0, <1>1, <1>2, <3>1
  <2>3. \A p \in open' : p.live =>
         \E u \in thunk' : /\ u.by = p.by /\ u.try = p.try /\ u.step = p.kind /\ u.plan = p.plan
                           /\ p.kind # "create" => p.id = u.projectId
    BY <1>0, <1>2 DEF Heard, Asks
  <2>4. \A p, r \in open' : p.live /\ r.live /\ p.by = r.by /\ p.try = r.try /\ p.kind # "manager" => p = r
    <3>1. q.by = b /\ q.try = t.try
      BY <1>2 DEF Asks
    <3> QED
      BY <1>0, <1>2, <1>7, <3>1 DEF Heard
  <2> QED
    BY <2>1, <2>2, <2>3, <2>4 DEF Heard
<1>9. Made'
  BY <1>3 DEF Core, Made, Exists
<1> QED
  BY <1>4, <1>5, <1>8, <1>9 DEF Core

LEMMA RedirectEffect ==
  ASSUME Core, NEW b \in Browser, NEW d \in wizard[b].redirects, redirect(b, d)
  PROVE  /\ Alone(b)
         /\ wizard'[b].redirects \subseteq wizard[b].redirects
         /\ wizard'[b].projectDetailsResponse = wizard[b].projectDetailsResponse
         /\ ~wizard'[b].generateProjectSuccess
         /\ wizard'[b].failed = wizard[b].failed
         /\ wizard'[b].mixed = wizard[b].mixed
<1>1. wizard[b] \in Wizard /\ wizard \in [Browser -> Wizard]
  BY DEF Core, TypeOK
<1>2. PICK new : new = [wizard[b] EXCEPT
         !.redirects = @ \ {d}, !.page = "project", !.projectDetailsLoading = FALSE,
         !.generateProjectSuccess = FALSE, !.generateProjectWarning = FALSE,
         !.generateProjectError = FALSE]
  OBVIOUS
<1>3. new \in Wizard
  BY <1>1, <1>2 DEF Wizard
<1>4. /\ new.tries = wizard[b].tries /\ new.redirects \subseteq wizard[b].redirects
      /\ new.projectDetailsResponse = wizard[b].projectDetailsResponse
      /\ new.generateProjectSuccess = FALSE /\ new.failed = wizard[b].failed
      /\ new.mixed = wizard[b].mixed
  BY <1>1, <1>2 DEF Wizard
<1>5. wizard' = [wizard EXCEPT ![b] = new] /\ wizard'[b] = new
  BY <1>1, <1>2 DEF redirect
<1>6. Alone(b)
  BY <1>1, <1>3, <1>4, <1>5 DEF Alone
<1> QED
  BY <1>4, <1>5, <1>6

LEMMA LeaveEffect ==
  ASSUME Core, NEW b \in Browser, leave(b)
  PROVE  Alone(b) /\ Kept(b) /\ Steady(b)
<1>1. wizard[b] \in Wizard /\ wizard \in [Browser -> Wizard]
  BY DEF Core, TypeOK
<1>2. PICK new : new = [wizard[b] EXCEPT !.page = "away"]
  OBVIOUS
<1>3. new \in Wizard
  BY <1>1, <1>2 DEF Wizard
<1>4. /\ new.tries = wizard[b].tries /\ new.redirects = wizard[b].redirects
      /\ new.projectDetailsResponse = wizard[b].projectDetailsResponse
      /\ new.failed = wizard[b].failed
      /\ new.generateProjectSuccess = wizard[b].generateProjectSuccess
      /\ new.generateProjectWarning = wizard[b].generateProjectWarning
      /\ new.projectDetailsLoading = wizard[b].projectDetailsLoading
      /\ new.mixed = wizard[b].mixed
  BY <1>1, <1>2 DEF Wizard
<1>5. wizard' = [wizard EXCEPT ![b] = new] /\ wizard'[b] = new
  BY <1>1, <1>2 DEF leave
<1>6. Alone(b)
  BY <1>1, <1>3, <1>4, <1>5 DEF Alone
<1> QED
  BY <1>4, <1>5, <1>6, Zenon DEF Kept, Steady

LEMMA ComeBackEffect ==
  ASSUME Core, NEW b \in Browser, come_back(b)
  PROVE  Alone(b) /\ Kept(b) /\ Steady(b)
<1>1. wizard[b] \in Wizard /\ TypeOK
  BY DEF Core, TypeOK
<1>2. PICK new : new = [wizard[b] EXCEPT !.page = "split-tasks"]
  OBVIOUS
<1>3. new \in Wizard /\ show(b, new)
  BY <1>1, <1>2 DEF Wizard, come_back
<1>4. /\ new.tries = wizard[b].tries /\ new.redirects = wizard[b].redirects
      /\ new.projectDetailsResponse = wizard[b].projectDetailsResponse
      /\ new.failed = wizard[b].failed
      /\ new.generateProjectSuccess = wizard[b].generateProjectSuccess
      /\ new.generateProjectWarning = wizard[b].generateProjectWarning
      /\ new.projectDetailsLoading = wizard[b].projectDetailsLoading
      /\ new.mixed = wizard[b].mixed
  BY <1>1, <1>2 DEF Wizard
<1>5. Alone(b) /\ Kept(b)
  BY <1>3, <1>4, KeptEffect
<1>6. /\ wizard'[b].projectDetailsLoading = new.projectDetailsLoading
      /\ wizard'[b].mixed = new.mixed
  BY <1>1, <1>3, ShownFlags
<1>7. wizard'[b].failed = new.failed
  BY <1>1, <1>3, Shown
<1> QED
  BY <1>4, <1>5, <1>6, <1>7, Zenon DEF Steady

\* The page of another project: only the loading flag is shared with the wizard.
LEMMA DetailsEffect ==
  ASSUME Core, NEW b \in Browser, GetIndividualProjectDetails(b) \/ details_end(b)
  PROVE  /\ Alone(b) /\ Kept(b)
         /\ wizard'[b].failed = wizard[b].failed /\ wizard'[b].mixed = wizard[b].mixed
<1>1. wizard[b] \in Wizard /\ wizard \in [Browser -> Wizard] /\ wizard[b].visits \in 0..MaxVisits
      /\ MaxVisits \in Nat
  BY CreationAssumption DEF Core, TypeOK, Wizard
<1>2. \E new \in Wizard :
        /\ wizard' = [wizard EXCEPT ![b] = new]
        /\ new.tries = wizard[b].tries /\ new.redirects = wizard[b].redirects
        /\ new.projectDetailsResponse = wizard[b].projectDetailsResponse
        /\ new.generateProjectSuccess = wizard[b].generateProjectSuccess
        /\ new.generateProjectWarning = wizard[b].generateProjectWarning
        /\ new.failed = wizard[b].failed /\ new.mixed = wizard[b].mixed
  <2>1. CASE GetIndividualProjectDetails(b)
    <3>1. PICK new : new = [wizard[b] EXCEPT !.page = "away", !.asked = TRUE, !.visits = @ + 1,
                                             !.projectDetailsLoading = TRUE]
      OBVIOUS
    <3>2. wizard[b].visits + 1 \in 0..MaxVisits
      BY <1>1, <2>1 DEF GetIndividualProjectDetails
    <3>3. new \in Wizard
      BY <1>1, <3>1, <3>2 DEF Wizard
    <3>4. wizard' = [wizard EXCEPT ![b] = new]
      BY <1>1, <2>1, <3>1 DEF GetIndividualProjectDetails
    <3> QED
      BY <1>1, <3>1, <3>3, <3>4 DEF Wizard
  <2>2. CASE details_end(b)
    <3>1. PICK new : new = [wizard[b] EXCEPT !.asked = FALSE, !.projectDetailsLoading = FALSE]
      OBVIOUS
    <3>2. new \in Wizard
      BY <1>1, <3>1 DEF Wizard
    <3>3. wizard' = [wizard EXCEPT ![b] = new]
      BY <1>1, <2>2, <3>1 DEF details_end
    <3> QED
      BY <1>1, <3>1, <3>2, <3>3 DEF Wizard
  <2> QED
    BY <2>1, <2>2
<1> QED
  BY <1>1, <1>2 DEF Alone, Kept

LEMMA SliceCore ==
  ASSUME Core, NEW b \in Browser, Alone(b),
         UNCHANGED <<projects, odk, s3, created, condemned, open, thunk, faults, losses>>
  PROVE  Core'
<1>1. \A c \in Browser : wizard'[c].tries = wizard[c].tries
  BY DEF Alone
<1>2. \A t \in thunk : t.by \in Browser
  BY ThunkFields
<1>3. TypeOK'
  BY DEF Core, TypeOK, Alone
<1>4. Requests' /\ Made'
  BY DEF Core, Requests, Made, Exists
<1>5. Heard'
  BY <1>1, <1>2 DEF Core, Heard
<1> QED
  BY <1>3, <1>4, <1>5 DEF Core

\* The request of the organisation manager.
LEMMA StaffAsks ==
  ASSUME Core, NEW p \in Project, staff_delete(p)
  PROVE  \E q \in Request :
           /\ q.kind = "delete" /\ q.by = Staff /\ q.id = p /\ q.step = "sent" /\ ~q.live /\ ~q.task
           /\ p \in created /\ Exists(p)
           /\ open' = open \union {q}
           /\ UNCHANGED <<projects, odk, s3, created, condemned, thunk, wizard, faults, losses>>
<1>0. TypeOK /\ Exists(p) /\ p \in created
  BY DEF Core, Made, staff_delete
<1>1. projects[p] \in Row /\ 0 \in 0..MaxTries /\ p \in created
  <2>1. projects[p] \in Row
    BY <1>0, RowTyped
  <2>2. 0 \in 0..MaxTries
    BY CreationAssumption
  <2> QED
    BY <1>0, <2>1, <2>2
<1>2. projects[p].name \in Name /\ NoPlan \in Plan
  BY <1>1 DEF Row, Plan, NoPlan
<1>3. PICK q : q = [kind |-> "delete", by |-> Staff, try |-> 0, id |-> p,
               name |-> projects[p].name, plan |-> NoPlan, admin |-> NoManager,
               step |-> "sent", live |-> FALSE, task |-> FALSE]
  OBVIOUS
<1>4. q \in Request /\ q.kind = "delete" /\ q.by = Staff /\ q.id = p /\ q.step = "sent" /\ ~q.live /\ ~q.task
  BY <1>1, <1>2, <1>3 DEF Request, Kind, Step
<1>5. open' = open \union {q} /\ UNCHANGED <<projects, odk, s3, created, condemned, thunk, wizard, faults, losses>>
  BY <1>3 DEF staff_delete, central, browser
<1> QED
  BY <1>0, <1>4, <1>5

LEMMA StaffCore ==
  ASSUME Core, NEW p \in Project, staff_delete(p)
  PROVE  Core'
<1>1. PICK q \in Request :
           /\ q.kind = "delete" /\ q.by = Staff /\ q.id = p /\ q.step = "sent" /\ ~q.live /\ ~q.task
           /\ p \in created /\ Exists(p)
           /\ open' = open \union {q}
           /\ UNCHANGED <<projects, odk, s3, created, condemned, thunk, wizard, faults, losses>>
  BY StaffAsks
<1>2. TypeOK'
  BY <1>1 DEF Core, TypeOK
<1>3. Requests' /\ Made'
  BY <1>1 DEF Core, Requests, Made, Exists
<1>4. Heard'
  BY <1>1 DEF Core, Heard
<1> QED
  BY <1>2, <1>3, <1>4 DEF Core

LEMMA CoreInit == Init => Core
<1>1. SUFFICES ASSUME Init PROVE Core
  OBVIOUS
<1>2. \A b \in Browser : wizard[b] \in Wizard
  BY <1>1, CreationAssumption DEF Init, Wizard
<1>3. wizard \in [Browser -> Wizard]
  BY <1>1, <1>2 DEF Init
<1>4. TypeOK
  <2>1. projects \in [Project -> Row \union {NoRow}] /\ odk \in [Project -> SUBSET OdkPart]
    BY <1>1 DEF Init
  <2>2. faults \in Nat /\ losses \in Nat /\ faults + losses <= MaxTroubles
    BY <1>1, CreationAssumption DEF Init
  <2>3. /\ s3 \subseteq Project /\ created \subseteq Project /\ condemned \subseteq Project
        /\ open \subseteq Request /\ thunk \subseteq Thunk
    BY <1>1 DEF Init
  <2> QED
    BY <1>3, <2>1, <2>2, <2>3 DEF TypeOK
<1>5. Requests /\ Heard /\ Made
  BY <1>1 DEF Init, Requests, Heard, Made, Exists
<1> QED
  BY <1>4, <1>5 DEF Core

\* The steps of a wizard that send nothing.
SliceStep(b) ==
  \/ \E d \in wizard[b].redirects : redirect(b, d)
  \/ leave(b) \/ come_back(b) \/ GetIndividualProjectDetails(b) \/ details_end(b)

\* But for the redirection they change neither what the wizard will show nor the history.
LEMMA Elsewhere ==
  ASSUME Core, NEW b \in Browser, SliceStep(b), ~\E d \in wizard[b].redirects : redirect(b, d)
  PROVE  /\ Alone(b) /\ Kept(b)
         /\ wizard'[b].failed = wizard[b].failed /\ wizard'[b].mixed = wizard[b].mixed
BY LeaveEffect, ComeBackEffect, DetailsEffect, Zenon DEF SliceStep, Steady

\* The steps of the whole, as the proofs take them.
LEMMA Steps ==
  ASSUME Next
  PROVE  \/ \E r \in open : backend(r)
         \/ \E r \in open : receive(r) \/ lose(r)
         \/ \E p \in Project : staff_delete(p)
         \/ \E b \in Browser, n \in Name, plan \in Plans : submit(b, n, plan)
         \/ \E b \in Browser : SliceStep(b)
BY DEF Next, SliceStep

LEMMA SliceSteps ==
  ASSUME Core, NEW b \in Browser, SliceStep(b)
  PROVE  /\ Alone(b) /\ wizard'[b].failed = wizard[b].failed /\ wizard'[b].mixed = wizard[b].mixed
         /\ UNCHANGED <<projects, odk, s3, created, condemned, open, thunk, faults, losses>>
<1>1. UNCHANGED <<projects, odk, s3, created, condemned, open, thunk, faults, losses>>
  BY DEF SliceStep, redirect, leave, come_back, GetIndividualProjectDetails, details_end, central
<1>2. Alone(b) /\ wizard'[b].failed = wizard[b].failed /\ wizard'[b].mixed = wizard[b].mixed
  BY RedirectEffect, Elsewhere, Zenon
<1> QED
  BY <1>1, <1>2

LEMMA CoreNext == Core /\ [Next]_vars => Core'
<1>1. SUFFICES ASSUME Core, [Next]_vars PROVE Core'
  OBVIOUS
<1>2. CASE UNCHANGED vars
  BY <1>1, <1>2 DEF vars, Core, TypeOK, Requests, Made, Exists, Heard
<1>3. CASE \E r \in open : backend(r)
  BY <1>1, <1>3, BackendCore
<1>4. CASE \E r \in open : receive(r) \/ lose(r)
  BY <1>1, <1>4, TurnCore
<1>5. CASE \E p \in Project : staff_delete(p)
  BY <1>1, <1>5, StaffCore
<1>6. CASE \E b \in Browser, n \in Name, plan \in Plans : submit(b, n, plan)
  BY <1>1, <1>6, SubmitCore
<1>7. CASE \E b \in Browser : SliceStep(b)
  BY <1>1, <1>7, SliceSteps, SliceCore
<1> QED
  BY <1>1, <1>2, <1>3, <1>4, <1>5, <1>6, <1>7, Steps

\* The tables, the requests and the slices stay of their type, whatever fails or is lost.
THEOREM CreationTypeCorrect == Spec => []TypeOK
<1>1. Core => TypeOK
  BY DEF Core
<1> QED
  BY <1>1, CoreInit, CoreNext, PTL DEF Spec

-----------------------------------------------------------------------------
(* Every project of ODK Central has its row. *)

\* While a project is between ODK Central and its row, only its creation knows of it.
Fresh ==
  /\ \A r \in open : r.id \in created \union {NoProject}
  /\ \A b \in Browser : wizard[b].failed \in created \union {NoProject}
  /\ \A r \in open : Creating(r) =>
       /\ ~Exists(r.id)
       /\ \A q \in open : q.id = r.id => q = r
       /\ \A t \in thunk : t.projectId # r.id
       /\ \A b \in Browser : wizard[b].failed # r.id

LEMMA CreationIs ==
  ASSUME NEW r \in open, backend(r), created' # created
  PROVE  create_odk_project(r)
BY DEF backend, refuse, create_check, create_odk_project, create_row, upload_project_task_boundaries,
         get_or_set_data_extract, upload_custom_extract, add_additional_entity_list, generate_files,
         create_entity_list, create_odk_xform, get_appuser_token, generate_content, generate_commit,
         add_new_project_manager, delete_odk_project, delete_all_objs_under_prefix, delete_row, central

LEMMA FreshBackend ==
  ASSUME Core, Fresh, NEW r \in open, backend(r)
  PROVE  Fresh'
<1>1. /\ open \subseteq Request /\ created \subseteq Project /\ NoProject \notin Project
      /\ created \subseteq created' /\ created' \subseteq Project
      /\ \A t \in thunk : t.projectId \in created \union {NoProject}
  BY CreationAssumption, CentralTyped, ThunkFields DEF Core, TypeOK
<1>2. Passes(r) /\ thunk' = thunk /\ wizard' = wizard
  BY BackendPasses DEF Core
<1>3. ASSUME NEW q \in open'
      PROVE  \/ q \in open \ {r}
             \/ q.id = r.id /\ ~Creating(q)
             \/ Creating(q) /\ q.id \in created' \ created
  BY <1>2 DEF Passes
<1>4. \A q \in open' : q.id \in created' \union {NoProject}
  BY <1>1, <1>3 DEF Fresh
<1>5. \A b \in Browser : wizard'[b].failed \in created' \union {NoProject}
  BY <1>1, <1>2 DEF Fresh
<1>6. ASSUME NEW x \in open', Creating(x)
      PROVE  /\ projects'[x.id] = NoRow
             /\ \A q \in open' : q.id = x.id => q = x
             /\ \A t \in thunk' : t.projectId # x.id
             /\ \A b \in Browser : wizard'[b].failed # x.id
  <2>1. CASE x \in open \ {r}
    <3>1. /\ ~Exists(x.id) /\ (\A q \in open : q.id = x.id => q = x)
          /\ (\A t \in thunk : t.projectId # x.id) /\ (\A b \in Browser : wizard[b].failed # x.id)
      BY <1>6, <2>1 DEF Fresh
    <3>2. x.id # r.id
      BY <2>1, <3>1
    <3>3. x.id \in created /\ x.id \in Project
      BY <1>1, <1>6, <2>1, IdMade DEF Creating
    <3>4. projects'[x.id] = projects[x.id]
      BY <3>2, <3>3, OthersKept
    <3>5. \A q \in open' : q.id = x.id => q = x
      BY <1>3, <3>1, <3>2, <3>3
    <3> QED
      BY <1>2, <3>1, <3>4, <3>5 DEF Exists
  <2>2. CASE x \notin open \ {r}
    <3>1. x.id \in created' \ created /\ create_odk_project(r)
      BY <1>3, <1>6, <2>2, CreationIs
    <3>2. projects' = projects /\ \E n : open' = (open \ {r}) \union {n}
      BY <3>1 DEF create_odk_project
    <3>3. ~Exists(x.id)
      BY <1>1, <3>1 DEF Core, Made
    <3>4. \A q \in open' : q.id = x.id => q = x
      <4>1. \A q \in open \ {r} : q.id # x.id
        BY <1>1, <3>1 DEF Fresh
      <4> QED
        BY <2>2, <3>2, <4>1
    <3>5. (\A t \in thunk : t.projectId # x.id) /\ (\A b \in Browser : wizard[b].failed # x.id)
      BY <1>1, <3>1 DEF Fresh
    <3> QED
      BY <1>2, <3>2, <3>3, <3>4, <3>5 DEF Exists
  <2> QED
    BY <2>1, <2>2
<1> QED
  BY <1>4, <1>5, <1>6 DEF Fresh, Exists

\* The projects that a turn of a submission speaks of.
LEMMA TurnSpeaks ==
  ASSUME Core, NEW t \in thunk, NEW r \in open, Waits(t, r), NEW rest, Turned(t, r, rest)
  PROVE  /\ \A u \in thunk' : u \in thunk \/ u.projectId = t.projectId \/ (u.projectId = r.id /\ r.step = "ok")
         /\ \A q \in open' : \/ q \in rest
                             \/ q.step = "sent" /\ (q.id = t.projectId \/ (q.id = r.id /\ r.step = "ok"))
         /\ rest \subseteq open'
         /\ \A b \in Browser : \/ wizard'[b].failed = wizard[b].failed
                               \/ b = t.by /\ t.step = "delete" /\ wizard'[b].failed = t.projectId
                                  /\ ~Unfinished(r)
<1>1. t.by \in Browser /\ Alone(t.by)
  BY ThunkFields, TurnAlone
<1>2. (t.step # "create" => t.projectId \in created) /\ (r.kind = "create" /\ r.step = "ok" => r.id \in created)
  BY ThunkFields DEF Core, Requests
<1>3. \/ thunk' \subseteq thunk /\ open' = rest
      \/ \E id \in created, kind \in Kind \ {"create"} :
           Called(t, id, kind, rest) /\ (id = t.projectId \/ (id = r.id /\ r.step = "ok"))
  BY <1>2 DEF Turned, Created, Proceeded, GaveUp, Stopped, Generated, Assigned, Deleted, Ended, Kind, Waits
<1>4. ASSUME NEW id \in created, NEW kind \in Kind \ {"create"}, Called(t, id, kind, rest),
             id = t.projectId \/ (id = r.id /\ r.step = "ok")
      PROVE  /\ \A u \in thunk' : u \in thunk \/ u.projectId = id
             /\ \A q \in open' : q \in rest \/ (q.step = "sent" /\ q.id = id)
             /\ rest \subseteq open'
  BY <1>4, CalledIs DEF Asks
<1>5. /\ \A u \in thunk' : u \in thunk \/ u.projectId = t.projectId \/ (u.projectId = r.id /\ r.step = "ok")
      /\ \A q \in open' : \/ q \in rest
                          \/ q.step = "sent" /\ (q.id = t.projectId \/ (q.id = r.id /\ r.step = "ok"))
      /\ rest \subseteq open'
  BY <1>3, <1>4
<1>6. \/ wizard'[t.by].failed = wizard[t.by].failed
      \/ t.step = "delete" /\ wizard'[t.by].failed = t.projectId /\ ~Unfinished(r)
  <2>1. CASE Created(t, r, rest) \/ Generated(t, r, rest)
    BY <2>1, CreatedEffect, GeneratedEffect DEF Steady
  <2>2. CASE Proceeded(t, rest)
    BY <2>2 DEF Proceeded
  <2>3. CASE GaveUp(t, rest)
    BY <1>1, <2>3, ErrorEffect DEF GaveUp, Steady
  <2>4. CASE Stopped(t, rest)
    BY <2>4, StoppedEffect
  <2>5. CASE Assigned(t, rest)
    BY <1>1, <2>5, ErrorEffect DEF Assigned, Steady
  <2>6. CASE Deleted(t, r, rest)
    BY <2>6, DeletedEffect DEF Steady, Deleted
  <2> QED
    BY <2>1, <2>2, <2>3, <2>4, <2>5, <2>6 DEF Turned
<1>7. \A b \in Browser : b # t.by => wizard'[b].failed = wizard[b].failed
  BY <1>1 DEF Alone
<1> QED
  BY <1>5, <1>6, <1>7

LEMMA FreshTurn ==
  ASSUME Core, Fresh, NEW r \in open, receive(r) \/ lose(r)
  PROVE  Fresh'
<1>1. PICK t \in thunk : \E rest : Waits(t, r) /\ Left(t, rest) /\ Turned(t, r, rest)
  BY Turns
<1>2. PICK rest : Waits(t, r) /\ Left(t, rest) /\ Turned(t, r, rest)
  BY <1>1
<1>3. /\ \A u \in thunk' : u \in thunk \/ u.projectId = t.projectId \/ (u.projectId = r.id /\ r.step = "ok")
      /\ \A q \in open' : \/ q \in rest
                          \/ q.step = "sent" /\ (q.id = t.projectId \/ (q.id = r.id /\ r.step = "ok"))
      /\ \A b \in Browser : wizard'[b].failed = wizard[b].failed \/ wizard'[b].failed = t.projectId
  BY <1>2, TurnSpeaks
<1>4. projects' = projects /\ created' = created
  BY TurnUnchanged
<1>5. ASSUME NEW q \in rest
      PROVE  \E o \in open : o.id = q.id /\ o.kind = q.kind /\ o.step = q.step /\ (q = o \/ q = Muted(o))
  <2>1. open \subseteq Request
    BY DEF Core, TypeOK
  <2>2. \A o \in open : Muted(o).id = o.id /\ Muted(o).kind = o.kind /\ Muted(o).step = o.step
    BY <2>1 DEF Request, Muted
  <2> QED
    BY <1>2, <2>2 DEF Left
<1>6. t.projectId \in created \union {NoProject}
  BY ThunkFields
<1>7. \A q \in open' : q.id \in created' \union {NoProject}
  BY <1>3, <1>4, <1>5, <1>6 DEF Fresh
<1>8. \A b \in Browser : wizard'[b].failed \in created' \union {NoProject}
  BY <1>3, <1>4, <1>6 DEF Fresh
<1>9. ASSUME NEW x \in open', Creating(x)
      PROVE  /\ ~Exists(x.id)
             /\ \A q \in open' : q.id = x.id => q = x
             /\ \A u \in thunk' : u.projectId # x.id
             /\ \A b \in Browser : wizard'[b].failed # x.id
  <2>1. x \in rest
    BY <1>3, <1>9 DEF Creating
  <2>2. PICK o \in open : o.id = x.id /\ Creating(o) /\ (x = o \/ x = Muted(o))
    BY <1>5, <1>9, <2>1 DEF Creating
  <2>3. /\ ~Exists(x.id) /\ (\A q \in open : q.id = x.id => q = o)
        /\ (\A u \in thunk : u.projectId # x.id) /\ (\A b \in Browser : wizard[b].failed # x.id)
    BY <2>2 DEF Fresh
  <2>4. r.id = x.id => r.step # "ok"
    BY <2>2, <2>3 DEF Creating
  <2>5. t.projectId # x.id
    BY <2>3
  <2>6. Muted(o) \in open => Muted(o) = o
    <3>1. Muted(o).id = o.id
      BY DEF Core, TypeOK, Request, Muted
    <3> QED
      BY <2>2, <2>3, <3>1
  <2>7. ASSUME NEW q \in open', q.id = x.id
        PROVE  q = x
    <3>1. q \in rest
      BY <1>3, <2>4, <2>5, <2>7
    <3>2. q = o \/ q = Muted(o)
      BY <1>5, <2>3, <2>7, <3>1
    <3>3. o \in rest /\ Muted(o) \in rest => Muted(o) = o
      BY <1>2, <2>6 DEF Left
    <3> QED
      BY <2>1, <2>2, <3>1, <3>2, <3>3
  <2> QED
    BY <1>3, <2>3, <2>4, <2>5, <2>7
<1> QED
  BY <1>4, <1>7, <1>8, <1>9 DEF Fresh, Exists

LEMMA FreshNext == Core /\ Fresh /\ [Next]_vars => Fresh'
<1>1. SUFFICES ASSUME Core, Fresh, [Next]_vars PROVE Fresh'
  OBVIOUS
<1>0. created \subseteq Project /\ NoProject \notin Project
  BY <1>1, CreationAssumption DEF Core, TypeOK
<1>2. CASE UNCHANGED vars
  BY <1>1, <1>2 DEF vars, Fresh, Exists
<1>3. CASE \E r \in open : backend(r)
  BY <1>1, <1>3, FreshBackend
<1>4. CASE \E r \in open : receive(r) \/ lose(r)
  BY <1>1, <1>4, FreshTurn
<1>5. CASE \E p \in Project : staff_delete(p)
  <2>1. PICK p \in Project : staff_delete(p)
    BY <1>5
  <2>2. PICK q \in Request :
           /\ q.id = p /\ q.kind = "delete" /\ p \in created /\ Exists(p)
           /\ open' = open \union {q}
           /\ UNCHANGED <<projects, odk, s3, created, condemned, thunk, wizard, faults, losses>>
    BY <1>1, <2>1, StaffAsks
  <2> QED
    BY <1>1, <2>2 DEF Fresh, Exists, Creating
<1>6. CASE \E b \in Browser, n \in Name, plan \in Plans : submit(b, n, plan)
  <2>1. PICK b \in Browser, n \in Name, plan \in Plans : submit(b, n, plan)
    BY <1>6
  <2>2. wizard'[b].failed = NoProject /\ (\A c \in Browser : c # b => wizard'[c] = wizard[c])
    BY <1>1, <2>1, SubmitEffect
  <2>3. PICK t \in Thunk, q \in Request :
           /\ t.step = "create" /\ t.projectId = NoProject
           /\ Asks(t, q)
           /\ thunk' = thunk \union {t} /\ open' = open \union {q}
    BY <1>1, <2>1, SubmitAsks
  <2>4. q.id = NoProject /\ q.step = "sent"
    BY <2>3 DEF Asks
  <2>5. projects' = projects /\ created' = created
    BY <2>1 DEF submit, central
  <2>6. \A r \in open : Creating(r) => r.id \in created
    BY <1>1, IdMade DEF Creating
  <2>7. ~Creating(q)
    BY <2>4 DEF Creating
  <2>8. \A r \in open' : r.id \in created' \union {NoProject}
    BY <1>1, <2>3, <2>4, <2>5 DEF Fresh
  <2>9. \A c \in Browser : wizard'[c].failed \in created' \union {NoProject}
    BY <1>1, <2>2, <2>5 DEF Fresh
  <2>10. ASSUME NEW x \in open', Creating(x)
         PROVE  /\ ~Exists(x.id)
                /\ \A p \in open' : p.id = x.id => p = x
                /\ \A u \in thunk' : u.projectId # x.id
                /\ \A c \in Browser : wizard'[c].failed # x.id
    <3>1. x \in open /\ x.id # NoProject
      BY <1>0, <2>3, <2>6, <2>7, <2>10
    <3> QED
      BY <1>1, <2>2, <2>3, <2>4, <2>10, <3>1 DEF Fresh
  <2> QED
    BY <2>5, <2>8, <2>9, <2>10 DEF Fresh, Exists
<1>7. CASE \E b \in Browser : SliceStep(b)
  <2>1. PICK b \in Browser : SliceStep(b)
    BY <1>7
  <2>2. /\ Alone(b) /\ wizard'[b].failed = wizard[b].failed
        /\ UNCHANGED <<projects, odk, s3, created, condemned, open, thunk, faults, losses>>
    BY <1>1, <2>1, SliceSteps
  <2>3. \A c \in Browser : wizard'[c].failed = wizard[c].failed
    BY <2>2 DEF Alone
  <2> QED
    BY <1>1, <2>2, <2>3 DEF Fresh, Exists
<1> QED
  BY <1>1, <1>2, <1>3, <1>4, <1>5, <1>6, <1>7, Steps

\* Rows and projects of ODK Central come and go together, but for the requests under way.
Balance ==
  faults = 0 =>
    /\ \A p \in Project : Exists(p) /\ odk[p] = {} => \E r \in open : Deleting(r) /\ r.id = p
    /\ \A p \in Project : ~Exists(p) /\ odk[p] # {} => \E r \in open : Creating(r) /\ r.id = p
    /\ \A r \in open : Deleting(r) => odk[r.id] = {}
    /\ \A r \in open : Creating(r) => odk[r.id] # {}

\* A step that neither makes nor deletes rows or projects of ODK Central.
Plain(r) ==
  /\ ~Creating(r) /\ ~Deleting(r) /\ created' = created
  /\ \A q \in open' : Creating(q) \/ Deleting(q) => q \in open \ {r}
  /\ \A p \in Project : (projects'[p] = NoRow) <=> (projects[p] = NoRow)
  /\ \A p \in Project : (odk'[p] = {}) <=> (odk[p] = {})

LEMMA AnsweredPlain ==
  ASSUME Core, NEW r \in open, NEW s \in {"ok", "error"}, NEW q \in Answered(r, s), Creating(q) \/ Deleting(q)
  PROVE  q \in open \ {r}
<1>1. r \in Request
  BY DEF Core, TypeOK
<1>2. CASE q \notin open \ {r}
  <2>1. q = [r EXCEPT !.step = s] /\ s \in Step
    BY <1>1, <1>2, AnsweredIs
  <2>2. q.step = s
    BY <1>1, <2>1, StepTo
  <2> QED
    BY <2>2 DEF Creating, Deleting
<1> QED
  BY <1>2

LEMMA RowKept ==
  ASSUME Core, NEW id \in Project, Exists(id), NEW row \in Row, projects' = [projects EXCEPT ![id] = row]
  PROVE  \A p \in Project : (projects'[p] = NoRow) <=> (projects[p] = NoRow)
<1>1. NoRow \notin Row
  BY DEF NoRow, Row
<1>2. projects \in [Project -> Row \union {NoRow}]
  BY DEF Core, TypeOK
<1> QED
  BY <1>1, <1>2 DEF Exists

LEMMA WritePlain ==
  ASSUME Core, NEW r \in open, r.kind \notin {"create", "delete"}, Exists(r.id),
         \E row \in Row : projects' = [projects EXCEPT ![r.id] = row],
         UNCHANGED <<odk, created>>,
         \A q \in open' : Creating(q) \/ Deleting(q) => q \in open \ {r}
  PROVE  Plain(r)
<1>1. r.id \in Project
  BY IdMade
<1>2. \A p \in Project : (projects'[p] = NoRow) <=> (projects[p] = NoRow)
  BY <1>1, RowKept
<1> QED
  BY <1>2 DEF Plain, Creating, Deleting

LEMMA BackendKinds ==
  ASSUME Core, NEW r \in open, backend(r), faults' = 0
  PROVE  \/ Plain(r) \/ create_odk_project(r) \/ create_row(r)
         \/ delete_odk_project(r) \/ delete_all_objs_under_prefix(r) \/ delete_row(r)
<1>0. r \in Request /\ TypeOK /\ faults = 0 /\ (r.kind # "create" => r.id \in Project)
  <2>1. faults' >= faults /\ faults \in Nat
    BY TroublesCounted DEF Core, TypeOK
  <2> QED
    BY <2>1, IdMade DEF Core, TypeOK
<1>1. \A q : q \in Answered(r, "ok") \/ q \in Answered(r, "error") =>
        (Creating(q) \/ Deleting(q) => q \in open \ {r})
  BY AnsweredPlain
<1>2. CASE refuse(r)
  <2>1. ~Creating(r) /\ ~Deleting(r)
    BY <1>0, <1>2 DEF refuse, Creating, Deleting
  <2>2. open' = Answered(r, "error") /\ UNCHANGED <<projects, odk, created>>
    BY <1>2 DEF refuse, central
  <2> QED
    BY <1>1, <2>1, <2>2 DEF Plain
<1>3. CASE create_check(r)
  <2>1. /\ open' = At(r, "odk") /\ UNCHANGED <<projects, odk, created>> /\ r.kind = "create" /\ r.step = "sent"
    BY <1>3 DEF create_check, central
  <2>2. \A q \in open' : q \in open \ {r} \/ q.step = "odk"
    <3>1. [r EXCEPT !.step = "odk"].step = "odk"
      BY <1>0, StepTo DEF Step
    <3> QED
      BY <2>1, <3>1 DEF At
  <2> QED
    BY <2>1, <2>2 DEF Plain, Creating, Deleting
<1>4. Exists(r.id) /\ r.kind # "create" => r.id \in Project /\ projects[r.id] \in Row
  BY <1>0, RowTyped
<1>5. CASE upload_project_task_boundaries(r)
  <2>1. /\ Exists(r.id) /\ r.kind \notin {"create", "delete"} /\ open' = Answered(r, "ok")
        /\ UNCHANGED <<odk, created>>
    BY <1>5 DEF upload_project_task_boundaries, central
  <2>2. \E row \in Row : projects' = [projects EXCEPT ![r.id] = row]
    BY <1>0, <1>4, <1>5, <2>1, RowTyped DEF upload_project_task_boundaries, DbTask_create
  <2> QED
    BY <1>1, <2>1, <2>2, WritePlain
<1>6. CASE get_or_set_data_extract(r)
  <2>1. /\ Exists(r.id) /\ r.kind \notin {"create", "delete"} /\ open' = Answered(r, "ok")
        /\ UNCHANGED <<odk, created>>
    BY <1>6 DEF get_or_set_data_extract, DbProject_update, central
  <2>2. \E row \in Row : projects' = [projects EXCEPT ![r.id] = row]
    BY <1>0, <1>4, <1>6, <2>1, RowTyped DEF get_or_set_data_extract, DbProject_update
  <2> QED
    BY <1>1, <2>1, <2>2, WritePlain
<1>7. CASE upload_custom_extract(r)
  <2>1. /\ Exists(r.id) /\ r.kind = "extract" /\ UNCHANGED <<odk, created>>
    BY <1>7 DEF upload_custom_extract
  <2>2. \A q \in open' : Creating(q) \/ Deleting(q) => q \in open \ {r}
    <3>1. CASE open' = Answered(r, "ok")
      BY <1>1, <3>1
    <3>2. CASE open' = At(r, "row")
      <4>1. [r EXCEPT !.step = "row"].kind = "extract"
        BY <1>0, <2>1, StepTo DEF Step, Follows
      <4> QED
        BY <3>2, <4>1 DEF At, Creating, Deleting
    <3> QED
      BY <1>7, <3>1, <3>2 DEF upload_custom_extract
  <2>3. CASE projects' = projects
    BY <2>1, <2>2, <2>3 DEF Plain, Creating, Deleting
  <2>4. CASE projects' # projects
    <3>1. \E row \in Row : projects' = [projects EXCEPT ![r.id] = row]
      BY <1>0, <1>4, <1>7, <2>1, <2>4, RowTyped DEF upload_custom_extract, DbProject_update
    <3> QED
      BY <2>1, <2>2, <3>1, WritePlain
  <2> QED
    BY <2>3, <2>4
<1>8. CASE generate_files(r)
  <2>1. /\ Exists(r.id) /\ r.kind = "generate" /\ UNCHANGED <<odk, created>>
    BY <1>8 DEF generate_files, central
  <2>2. \A q \in open' : Creating(q) \/ Deleting(q) => q \in open \ {r}
    <3>1. PICK n : n = [r EXCEPT !.step = "features", !.live = FALSE, !.task = TRUE]
      OBVIOUS
    <3>2. n.kind = "generate"
      BY <1>0, <2>1, <3>1 DEF Request
    <3>3. [r EXCEPT !.step = "features"].kind = "generate"
      BY <1>0, <2>1, StepTo DEF Step, Follows
    <3>4. CASE r.plan.big
      BY <1>1, <1>8, <3>1, <3>2, <3>4 DEF generate_files, Creating, Deleting
    <3>5. CASE ~r.plan.big
      BY <1>8, <3>3, <3>5 DEF generate_files, At, Creating, Deleting
    <3> QED
      BY <3>4, <3>5
  <2>3. CASE projects' = projects
    BY <2>1, <2>2, <2>3 DEF Plain, Creating, Deleting
  <2>4. CASE projects' # projects
    <3>1. \E row \in Row : projects' = [projects EXCEPT ![r.id] = row]
      BY <1>0, <1>4, <1>8, <2>1, <2>4, RowTyped DEF generate_files, DbProject_update
    <3> QED
      BY <2>1, <2>2, <3>1, WritePlain
  <2> QED
    BY <2>3, <2>4
<1>9. CASE generate_commit(r)
  <2>1. /\ r.kind = "generate" /\ UNCHANGED <<odk, created>> /\ open' = Answered(r, "ok")
    BY <1>9 DEF generate_commit, central
  <2>2. CASE projects' = projects
    BY <1>1, <2>1, <2>2 DEF Plain, Creating, Deleting
  <2>3. CASE projects' # projects
    <3>1. Exists(r.id)
      BY <1>9, <2>3 DEF generate_commit, DbProject_update
    <3>2. \E row \in Row : projects' = [projects EXCEPT ![r.id] = row]
      BY <1>0, <1>4, <1>9, <2>1, <2>3, <3>1, RowTyped DEF generate_commit, DbProject_update
    <3> QED
      BY <1>1, <2>1, <3>1, <3>2, WritePlain
  <2> QED
    BY <2>2, <2>3
<1>10. CASE add_new_project_manager(r)
  <2>1. /\ Exists(r.id) /\ r.kind = "manager" /\ open' = Answered(r, "ok") /\ UNCHANGED <<odk, created>>
    BY <1>10 DEF add_new_project_manager, central
  <2>2. r.admin \in Manager
    BY <2>1 DEF Core, Requests
  <2>3. \E row \in Row : projects' = [projects EXCEPT ![r.id] = row]
    BY <1>0, <1>4, <1>10, <2>1, <2>2, RowTyped DEF add_new_project_manager
  <2> QED
    BY <1>1, <2>1, <2>3, WritePlain
<1>11. CASE add_additional_entity_list(r)
  <2>1. /\ r.kind = "additional" /\ open' = Answered(r, "ok") /\ UNCHANGED <<projects, created>>
        /\ odk[r.id] # {} /\ odk' = [odk EXCEPT ![r.id] = odk[r.id] \union {"dataset"}]
    BY <1>11 DEF add_additional_entity_list
  <2>2. \A p \in Project : (odk'[p] = {}) <=> (odk[p] = {})
    BY <1>0, <2>1 DEF TypeOK
  <2> QED
    BY <1>1, <2>1, <2>2 DEF Plain, Creating, Deleting
<1>12. CASE create_entity_list(r) \/ create_odk_xform(r) \/ get_appuser_token(r)
  <2>1. PICK step \in DOMAIN After :
          /\ r.kind = "generate" /\ odk[r.id] # {} /\ open' = At(r, After[step])
          /\ odk' = [odk EXCEPT ![r.id] = odk[r.id] \union {step}] /\ UNCHANGED <<projects, created>>
    BY <1>12 DEF create_entity_list, create_odk_xform, get_appuser_token, generate_content, After
  <2>2. \A p \in Project : (odk'[p] = {}) <=> (odk[p] = {})
    BY <1>0, <2>1 DEF TypeOK
  <2>3. \A q \in open' : q \in open \ {r} \/ q.kind = "generate"
    <3>1. After[step] \in Step
      BY DEF After, Step
    <3>2. [r EXCEPT !.step = After[step]].kind = "generate"
      BY <1>0, <2>1, <3>1, StepTo DEF Follows
    <3> QED
      BY <2>1, <3>2 DEF At
  <2> QED
    BY <2>1, <2>2, <2>3 DEF Plain, Creating, Deleting
<1> QED
  BY <1>2, <1>3, <1>5, <1>6, <1>7, <1>8, <1>9, <1>10, <1>11, <1>12 DEF backend

LEMMA BalanceBackend ==
  ASSUME Core, Fresh, Balance, NEW r \in open, backend(r)
  PROVE  Balance'
<1>0. SUFFICES ASSUME faults' = 0
               PROVE  /\ \A p \in Project : projects'[p] # NoRow /\ odk'[p] = {} => \E q \in open' : Deleting(q) /\ q.id = p
                      /\ \A p \in Project : projects'[p] = NoRow /\ odk'[p] # {} => \E q \in open' : Creating(q) /\ q.id = p
                      /\ \A q \in open' : Deleting(q) => odk'[q.id] = {}
                      /\ \A q \in open' : Creating(q) => odk'[q.id] # {}
  BY DEF Balance, Exists
<1>1. /\ \A p \in Project : projects[p] # NoRow /\ odk[p] = {} => \E q \in open : Deleting(q) /\ q.id = p
      /\ \A p \in Project : projects[p] = NoRow /\ odk[p] # {} => \E q \in open : Creating(q) /\ q.id = p
      /\ \A q \in open : Deleting(q) => odk[q.id] = {}
      /\ \A q \in open : Creating(q) => odk[q.id] # {}
  <2>1. faults = 0
    BY <1>0, TroublesCounted DEF Core, TypeOK
  <2> QED
    BY <2>1 DEF Balance, Exists
<1>2. /\ odk \in [Project -> SUBSET OdkPart] /\ projects \in [Project -> Row \union {NoRow}] /\ r \in Request
      /\ created \subseteq Project
  BY DEF Core, TypeOK
<1>3. \A q \in open : Deleting(q) \/ Creating(q) => q.id \in Project /\ q.id \in created
  BY IdMade DEF Deleting, Creating
<1>4. \A q \in open : q # r => q \in open'
  BY BackendPasses DEF Core, Passes
<1>5. CASE Plain(r)
  BY <1>1, <1>3, <1>4, <1>5 DEF Plain
<1>6. CASE create_odk_project(r)
  <2>1. PICK p \in Project \ created :
          /\ odk' = [odk EXCEPT ![p] = {"project"}]
          /\ open' = (open \ {r}) \union {[r EXCEPT !.step = "row", !.id = p]}
          /\ projects' = projects /\ r.kind = "create" /\ r.step = "odk"
    BY <1>6 DEF create_odk_project
  <2>2. PICK n : n = [r EXCEPT !.step = "row", !.id = p]
    OBVIOUS
  <2>3. n \in open' /\ n.id = p /\ Creating(n) /\ ~Deleting(n) /\ \A q \in open' : q \in open \/ q = n
    BY <1>2, <2>1, <2>2 DEF Request, Creating, Deleting
  <2>4. projects[p] = NoRow
    BY <2>1 DEF Core, Made, Exists
  <2>5. ~Creating(r) /\ ~Deleting(r)
    BY <2>1 DEF Creating, Deleting
  <2>6. \A q \in Project : q # p => odk'[q] = odk[q] /\ projects'[q] = projects[q]
    BY <1>2, <2>1
  <2>7. odk'[p] # {} /\ projects'[p] = NoRow
    BY <1>2, <2>1, <2>4
  <2>8. \A q \in open : Deleting(q) \/ Creating(q) => q.id # p
    BY <1>3, <2>1
  <2> QED
    BY <1>1, <1>3, <1>4, <2>3, <2>5, <2>6, <2>7, <2>8
<1>7. CASE create_row(r)
  <2>1. /\ Creating(r) /\ r.id \in Project /\ projects'[r.id] # NoRow
        /\ odk' = odk /\ open' = Answered(r, "ok")
        /\ \A q \in Project : q # r.id => projects'[q] = projects[q]
    <3>1. Creating(r) /\ r.id \in Project
      BY <1>3, <1>7 DEF create_row, Creating
    <3>2. projects' = [projects EXCEPT ![r.id] =
       [name |-> r.name, by |-> r.by, tasks |-> FALSE, data_extract_url |-> FALSE,
        odk_form_id |-> FALSE, odk_token |-> FALSE, managers |-> {}]]
      BY <1>7 DEF create_row
    <3>3. [name |-> r.name, by |-> r.by, tasks |-> FALSE, data_extract_url |-> FALSE,
        odk_form_id |-> FALSE, odk_token |-> FALSE, managers |-> {}] # NoRow
      BY DEF NoRow
    <3> QED
      BY <1>2, <1>7, <3>1, <3>2, <3>3 DEF create_row, central
  <2>2. odk[r.id] # {} /\ ~Deleting(r)
    BY <1>1, <2>1 DEF Creating, Deleting
  <2>3. \A q \in open' : Creating(q) \/ Deleting(q) => q \in open \ {r}
    BY <2>1, AnsweredPlain
  <2>4. ASSUME NEW p \in Project, projects'[p] # NoRow, odk'[p] = {}
        PROVE  \E q \in open' : Deleting(q) /\ q.id = p
    BY <1>1, <1>4, <2>1, <2>2, <2>4
  <2>5. ASSUME NEW p \in Project, projects'[p] = NoRow, odk'[p] # {}
        PROVE  \E q \in open' : Creating(q) /\ q.id = p
    BY <1>1, <1>4, <2>1, <2>5
  <2>6. \A q \in open' : (Deleting(q) => odk'[q.id] = {}) /\ (Creating(q) => odk'[q.id] # {})
    BY <1>1, <2>1, <2>3
  <2> QED
    BY <2>4, <2>5, <2>6
<1>8. CASE delete_odk_project(r)
  <2>1. /\ r.id \in Project /\ odk' = [odk EXCEPT ![r.id] = {}] /\ projects' = projects
        /\ open' = (open \ {r}) \union {[r EXCEPT !.step = "s3"]}
        /\ r.kind = "delete" /\ r.step = "sent"
    <3>1. faults' = faults
      BY <1>0, TroublesCounted DEF Core, TypeOK
    <3>2. faults \in Nat
      BY DEF Core, TypeOK
    <3> QED
      BY <1>8, <3>1, <3>2, IdMade DEF delete_odk_project, At
  <2>2. PICK n : n = [r EXCEPT !.step = "s3"]
    OBVIOUS
  <2>3. n \in open' /\ n.id = r.id /\ Deleting(n) /\ ~Creating(n) /\ \A q \in open' : q \in open \/ q = n
    BY <1>2, <2>1, <2>2 DEF Request, Creating, Deleting
  <2>4. ~Creating(r) /\ ~Deleting(r)
    BY <2>1 DEF Creating, Deleting
  <2>5. odk'[r.id] = {} /\ \A q \in Project : q # r.id => odk'[q] = odk[q]
    BY <1>2, <2>1
  <2>6. \A q \in open : Creating(q) => q.id # r.id
    BY <2>4 DEF Fresh
  <2>7. ASSUME NEW p \in Project, projects'[p] # NoRow, odk'[p] = {}
        PROVE  \E q \in open' : Deleting(q) /\ q.id = p
    BY <1>1, <1>4, <2>1, <2>3, <2>4, <2>5, <2>7
  <2>8. ASSUME NEW p \in Project, projects'[p] = NoRow, odk'[p] # {}
        PROVE  \E q \in open' : Creating(q) /\ q.id = p
    BY <1>1, <1>4, <2>1, <2>4, <2>5, <2>8
  <2>9. \A q \in open' : (Deleting(q) => odk'[q.id] = {}) /\ (Creating(q) => odk'[q.id] # {})
    BY <1>1, <1>3, <2>3, <2>5, <2>6
  <2> QED
    BY <2>7, <2>8, <2>9
<1>9. CASE delete_all_objs_under_prefix(r)
  <2>1. /\ odk' = odk /\ projects' = projects /\ open' = (open \ {r}) \union {[r EXCEPT !.step = "row"]}
        /\ r.kind = "delete" /\ r.step = "s3"
    BY <1>9 DEF delete_all_objs_under_prefix, At
  <2>2. PICK n : n = [r EXCEPT !.step = "row"]
    OBVIOUS
  <2>3. n \in open' /\ n.id = r.id /\ Deleting(n) /\ ~Creating(n) /\ \A q \in open' : q \in open \/ q = n
    BY <1>2, <2>1, <2>2 DEF Request, Creating, Deleting
  <2>4. ~Creating(r) /\ Deleting(r)
    BY <2>1 DEF Creating, Deleting
  <2>5. ASSUME NEW p \in Project, projects'[p] # NoRow, odk'[p] = {}
        PROVE  \E q \in open' : Deleting(q) /\ q.id = p
    BY <1>1, <1>4, <2>1, <2>3, <2>5
  <2>6. ASSUME NEW p \in Project, projects'[p] = NoRow, odk'[p] # {}
        PROVE  \E q \in open' : Creating(q) /\ q.id = p
    BY <1>1, <1>4, <2>1, <2>4, <2>6
  <2>7. \A q \in open' : (Deleting(q) => odk'[q.id] = {}) /\ (Creating(q) => odk'[q.id] # {})
    BY <1>1, <2>1, <2>3, <2>4
  <2> QED
    BY <2>5, <2>6, <2>7
<1>10. CASE delete_row(r)
  <2>1. Deleting(r) /\ ~Creating(r) /\ odk' = odk /\ open' = Answered(r, "ok")
        /\ projects' = [projects EXCEPT ![r.id] = NoRow]
    BY <1>10 DEF delete_row, Deleting, Creating, central
  <2>2. r.id \in Project /\ odk[r.id] = {}
    BY <1>1, <1>3, <2>1
  <2>3. projects'[r.id] = NoRow /\ \A q \in Project : q # r.id => projects'[q] = projects[q]
    BY <1>2, <2>1, <2>2
  <2>4. \A q \in open' : Creating(q) \/ Deleting(q) => q \in open \ {r}
    BY <2>1, AnsweredPlain
  <2>5. ASSUME NEW p \in Project, projects'[p] # NoRow, odk'[p] = {}
        PROVE  \E q \in open' : Deleting(q) /\ q.id = p
    BY <1>1, <1>4, <2>1, <2>3, <2>5
  <2>6. ASSUME NEW p \in Project, projects'[p] = NoRow, odk'[p] # {}
        PROVE  \E q \in open' : Creating(q) /\ q.id = p
    BY <1>1, <1>4, <2>1, <2>2, <2>3, <2>6
  <2>7. \A q \in open' : (Deleting(q) => odk'[q.id] = {}) /\ (Creating(q) => odk'[q.id] # {})
    BY <1>1, <2>1, <2>4
  <2> QED
    BY <2>5, <2>6, <2>7
<1> QED
  BY <1>0, <1>5, <1>6, <1>7, <1>8, <1>9, <1>10, BackendKinds

\* Requests that go on do so whether or not anybody waits.
LEMMA TurnGoesOn ==
  ASSUME Core, NEW r \in open, receive(r) \/ lose(r)
  PROVE  /\ \A o \in open : Creating(o) => \E q \in open' : Creating(q) /\ q.id = o.id
         /\ \A o \in open : Deleting(o) => \E q \in open' : Deleting(q) /\ q.id = o.id
         /\ \A q \in open' : Creating(q) => \E o \in open : Creating(o) /\ q.id = o.id
         /\ \A q \in open' : Deleting(q) => \E o \in open : Deleting(o) /\ q.id = o.id
<1>1. PICK t \in thunk : \E rest : Waits(t, r) /\ Left(t, rest) /\ Turned(t, r, rest)
  BY Turns
<1>2. PICK rest : Waits(t, r) /\ Left(t, rest) /\ Turned(t, r, rest)
  BY <1>1
<1>3. rest \subseteq open' /\ \A q \in open' : q \in rest \/ q.step = "sent"
  BY <1>2, TurnSpeaks
<1>4. ASSUME NEW o \in open
      PROVE  Muted(o).id = o.id /\ (Creating(Muted(o)) <=> Creating(o)) /\ (Deleting(Muted(o)) <=> Deleting(o))
  BY DEF Core, TypeOK, Request, Muted, Creating, Deleting
<1>5. ASSUME NEW o \in open, Creating(o) \/ Deleting(o)
      PROVE  o \in rest \/ Muted(o) \in rest
  BY <1>2, <1>5 DEF Left, Unfinished, Creating, Deleting
<1>6. ASSUME NEW q \in rest
      PROVE  \E o \in open : q = o \/ q = Muted(o)
  BY <1>2 DEF Left
<1>7. \A q \in open' : Creating(q) \/ Deleting(q) => q \in rest
  BY <1>3 DEF Creating, Deleting
<1> QED
  BY <1>3, <1>4, <1>5, <1>6, <1>7

LEMMA BalanceNext == Core /\ Fresh /\ Balance /\ [Next]_vars => Balance'
<1>1. SUFFICES ASSUME Core, Fresh, Balance, [Next]_vars PROVE Balance'
  OBVIOUS
<1>2. CASE UNCHANGED vars
  BY <1>1, <1>2 DEF vars, Balance, Exists
<1>3. CASE \E r \in open : backend(r)
  BY <1>1, <1>3, BalanceBackend
<1>4. CASE \E r \in open : receive(r) \/ lose(r)
  <2>1. UNCHANGED <<projects, odk, faults>>
    BY <1>1, <1>4, TurnUnchanged
  <2>2. /\ \A o \in open : Creating(o) => \E q \in open' : Creating(q) /\ q.id = o.id
        /\ \A o \in open : Deleting(o) => \E q \in open' : Deleting(q) /\ q.id = o.id
        /\ \A q \in open' : Creating(q) => \E o \in open : Creating(o) /\ q.id = o.id
        /\ \A q \in open' : Deleting(q) => \E o \in open : Deleting(o) /\ q.id = o.id
    BY <1>1, <1>4, TurnGoesOn
  <2>3. ASSUME faults = 0
        PROVE  /\ \A p \in Project : Exists(p) /\ odk[p] = {} => \E r \in open' : Deleting(r) /\ r.id = p
               /\ \A p \in Project : ~Exists(p) /\ odk[p] # {} => \E r \in open' : Creating(r) /\ r.id = p
               /\ \A r \in open' : Deleting(r) => odk[r.id] = {}
               /\ \A r \in open' : Creating(r) => odk[r.id] # {}
    <3>1. /\ \A p \in Project : Exists(p) /\ odk[p] = {} => \E r \in open : Deleting(r) /\ r.id = p
          /\ \A p \in Project : ~Exists(p) /\ odk[p] # {} => \E r \in open : Creating(r) /\ r.id = p
          /\ \A r \in open : Deleting(r) => odk[r.id] = {}
          /\ \A r \in open : Creating(r) => odk[r.id] # {}
      BY <1>1, <2>3 DEF Balance
    <3>2. ASSUME NEW p \in Project, Exists(p), odk[p] = {}
          PROVE  \E r \in open' : Deleting(r) /\ r.id = p
      BY <2>2, <3>1, <3>2
    <3>3. ASSUME NEW p \in Project, ~Exists(p), odk[p] # {}
          PROVE  \E r \in open' : Creating(r) /\ r.id = p
      BY <2>2, <3>1, <3>3
    <3>4. ASSUME NEW r \in open'
          PROVE  (Deleting(r) => odk[r.id] = {}) /\ (Creating(r) => odk[r.id] # {})
      <4>1. ASSUME Deleting(r) PROVE odk[r.id] = {}
        <5>1. PICK o \in open : Deleting(o) /\ r.id = o.id
          BY <2>2, <4>1
        <5> QED
          BY <3>1, <5>1
      <4>2. ASSUME Creating(r) PROVE odk[r.id] # {}
        <5>1. PICK o \in open : Creating(o) /\ r.id = o.id
          BY <2>2, <4>2
        <5> QED
          BY <3>1, <5>1
      <4> QED
        BY <4>1, <4>2
    <3> QED
      BY <3>2, <3>3, <3>4
  <2> QED
    BY <2>1, <2>3 DEF Balance, Exists
<1>5. CASE \E p \in Project : staff_delete(p)
  <2>1. PICK q \in Request : /\ q.step = "sent" /\ open' = open \union {q}
                             /\ UNCHANGED <<projects, odk, faults>>
    BY <1>1, <1>5, StaffAsks
  <2> QED
    BY <1>1, <2>1 DEF Balance, Exists, Creating, Deleting
<1>6. CASE \E b \in Browser, n \in Name, plan \in Plans : submit(b, n, plan)
  <2>1. PICK b \in Browser, n \in Name, plan \in Plans : submit(b, n, plan)
    BY <1>6
  <2>2. PICK t \in Thunk, q \in Request : Asks(t, q) /\ open' = open \union {q}
    BY <1>1, <2>1, SubmitAsks
  <2>3. q.step = "sent" /\ UNCHANGED <<projects, odk, faults>>
    BY <2>1, <2>2 DEF Asks, submit, central
  <2> QED
    BY <1>1, <2>2, <2>3 DEF Balance, Exists, Creating, Deleting
<1>7. CASE \E b \in Browser : SliceStep(b)
  <2>1. UNCHANGED <<projects, odk, open, faults>>
    BY <1>1, <1>7, SliceSteps
  <2> QED
    BY <1>1, <2>1 DEF Balance, Exists
<1> QED
  BY <1>1, <1>2, <1>3, <1>4, <1>5, <1>6, <1>7, Steps

\* If nothing fails in ODK Central, S3 or the database, then whatever answers are lost, in whatever
\* order requests are handled and projects deleted: when no request is being handled, the rows
\* and the projects of ODK Central are the same.
THEOREM NoOrphanHolds == Spec => []NoOrphan
<1>1. Init => Core /\ Fresh /\ Balance
  <2>1. Init => Fresh /\ Balance
    BY DEF Init, Fresh, Balance, Exists
  <2> QED
    BY <2>1, CoreInit
<1>2. Core /\ Fresh /\ Balance /\ [Next]_vars => (Core /\ Fresh /\ Balance)'
  BY CoreNext, FreshNext, BalanceNext
<1>3. Balance => NoOrphan
  BY DEF Balance, NoOrphan, Creating, Deleting
<1> QED
  BY <1>1, <1>2, <1>3, PTL DEF Spec

-----------------------------------------------------------------------------
(* A submission that failed is out of the way. *)

\* A deletion that has ended leaves no row.
Cleaned ==
  faults = 0 =>
    /\ \A r \in open : r.kind = "delete" /\ ~Unfinished(r) => ~Exists(r.id)
    /\ \A b \in Browser : wizard[b].failed # NoProject => ~Exists(wizard[b].failed)

\* A row appears only when a creation gets there.
LEMMA RowAppears ==
  ASSUME Core, NEW r \in open, backend(r), faults' = 0, NEW p \in Project,
         projects[p] = NoRow, projects'[p] # NoRow
  PROVE  Creating(r) /\ p = r.id
<1>1. projects \in [Project -> Row \union {NoRow}]
  BY DEF Core, TypeOK
<1>2. CASE create_row(r)
  BY <1>1, <1>2 DEF create_row, Creating
<1>3. CASE delete_row(r)
  BY <1>1, <1>3 DEF delete_row
<1>4. CASE create_odk_project(r) \/ delete_odk_project(r) \/ delete_all_objs_under_prefix(r)
  BY <1>4 DEF create_odk_project, delete_odk_project, delete_all_objs_under_prefix
<1> QED
  BY <1>2, <1>3, <1>4, BackendKinds DEF Plain

LEMMA CleanedBackend ==
  ASSUME Core, Fresh, Cleaned, NEW r \in open, backend(r)
  PROVE  Cleaned'
<1>0. SUFFICES ASSUME faults' = 0
               PROVE  /\ \A q \in open' : q.kind = "delete" /\ ~Unfinished(q) => projects'[q.id] = NoRow
                      /\ \A b \in Browser : wizard'[b].failed # NoProject => projects'[wizard'[b].failed] = NoRow
  BY DEF Cleaned, Exists
<1>1. faults = 0 /\ r \in Request /\ created \subseteq Project
  <2>1. faults' >= faults /\ faults \in Nat
    BY TroublesCounted DEF Core, TypeOK
  <2> QED
    BY <1>0, <2>1 DEF Core, TypeOK
<1>2. Passes(r) /\ wizard' = wizard
  BY BackendPasses DEF Core
<1>3. ASSUME NEW b \in Browser, wizard[b].failed # NoProject
      PROVE  projects'[wizard[b].failed] = NoRow
  <2>1. projects[wizard[b].failed] = NoRow /\ wizard[b].failed \in Project
    BY <1>1, <1>3 DEF Cleaned, Exists, Fresh
  <2>2. Creating(r) => wizard[b].failed # r.id
    BY DEF Fresh
  <2> QED
    BY <1>0, <2>1, <2>2, RowAppears
<1>4. ASSUME NEW q \in open', q.kind = "delete", ~Unfinished(q)
      PROVE  projects'[q.id] = NoRow
  <2>1. CASE q \in open \ {r}
    <3>1. projects[q.id] = NoRow /\ q.id \in Project
      BY <1>1, <1>4, <2>1, IdMade DEF Cleaned, Exists
    <3>2. Creating(r) => q.id # r.id
      BY <2>1 DEF Fresh
    <3> QED
      BY <1>0, <3>1, <3>2, RowAppears
  <2>2. CASE q \notin open \ {r}
    <3>1. r.kind = "delete" /\ q.id = r.id /\ q.step \in {"ok", "error"}
      BY <1>2, <1>4, <2>2 DEF Passes, Follows, Creating, Unfinished
    <3>2. refuse(r) \/ delete_odk_project(r) \/ delete_all_objs_under_prefix(r) \/ delete_row(r)
      BY <3>1 DEF backend, create_check, create_odk_project, create_row, upload_project_task_boundaries,
         get_or_set_data_extract, upload_custom_extract, add_additional_entity_list, generate_files,
         create_entity_list, create_odk_xform, get_appuser_token, generate_content, generate_commit,
         add_new_project_manager
    <3>3. r.id \in Project /\ projects \in [Project -> Row \union {NoRow}]
      BY <3>1, IdMade DEF Core, TypeOK
    <3>4. CASE refuse(r)
      BY <1>0, <1>1, <3>1, <3>4 DEF refuse, Exists
    <3>5. CASE delete_odk_project(r) \/ delete_all_objs_under_prefix(r)
      <4>1. [r EXCEPT !.step = "s3"].step = "s3" /\ [r EXCEPT !.step = "row"].step = "row"
        BY <1>1, StepTo DEF Step
      <4> QED
        BY <2>2, <3>1, <3>5, <4>1 DEF delete_odk_project, delete_all_objs_under_prefix, At
    <3>6. CASE delete_row(r)
      BY <3>1, <3>3, <3>6 DEF delete_row
    <3> QED
      BY <3>2, <3>4, <3>5, <3>6
  <2> QED
    BY <2>1, <2>2
<1> QED
  BY <1>2, <1>3, <1>4

LEMMA CleanedTurn ==
  ASSUME Core, Cleaned, NEW r \in open, receive(r) \/ lose(r)
  PROVE  Cleaned'
<1>1. PICK t \in thunk : \E rest : Waits(t, r) /\ Left(t, rest) /\ Turned(t, r, rest)
  BY Turns
<1>2. PICK rest : Waits(t, r) /\ Left(t, rest) /\ Turned(t, r, rest)
  BY <1>1
<1>3. /\ \A q \in open' : q \in rest \/ q.step = "sent"
      /\ \A b \in Browser : \/ wizard'[b].failed = wizard[b].failed
                            \/ t.step = "delete" /\ wizard'[b].failed = t.projectId /\ ~Unfinished(r)
  BY <1>2, TurnSpeaks
<1>4. projects' = projects /\ faults' = faults
  BY TurnUnchanged
<1>5. ASSUME NEW q \in rest
      PROVE  \E o \in open : o.id = q.id /\ o.kind = q.kind /\ (Unfinished(o) <=> Unfinished(q))
  BY <1>2, LeftIs DEF Unfinished
<1>6. ASSUME faults = 0
      PROVE  /\ \A q \in open' : q.kind = "delete" /\ ~Unfinished(q) => ~Exists(q.id)
             /\ \A b \in Browser : wizard'[b].failed # NoProject => ~Exists(wizard'[b].failed)
  <2>1. /\ \A q \in open : q.kind = "delete" /\ ~Unfinished(q) => ~Exists(q.id)
        /\ \A b \in Browser : wizard[b].failed # NoProject => ~Exists(wizard[b].failed)
    BY <1>6 DEF Cleaned
  <2>2. \A q \in open' : q.kind = "delete" /\ ~Unfinished(q) => ~Exists(q.id)
    BY <1>3, <1>5, <2>1 DEF Unfinished
  <2>3. t.step = "delete" /\ ~Unfinished(r) => ~Exists(t.projectId)
    BY <1>2, <2>1 DEF Waits
  <2> QED
    BY <1>3, <2>1, <2>2, <2>3
<1> QED
  BY <1>4, <1>6 DEF Cleaned, Exists

LEMMA CleanedNext == Core /\ Fresh /\ Cleaned /\ [Next]_vars => Cleaned'
<1>1. SUFFICES ASSUME Core, Fresh, Cleaned, [Next]_vars PROVE Cleaned'
  OBVIOUS
<1>2. CASE UNCHANGED vars
  BY <1>1, <1>2 DEF vars, Cleaned, Exists
<1>3. CASE \E r \in open : backend(r)
  BY <1>1, <1>3, CleanedBackend
<1>4. CASE \E r \in open : receive(r) \/ lose(r)
  BY <1>1, <1>4, CleanedTurn
<1>5. CASE \E p \in Project : staff_delete(p)
  <2>1. PICK q \in Request : /\ q.step = "sent" /\ open' = open \union {q}
                             /\ UNCHANGED <<projects, wizard, faults>>
    BY <1>1, <1>5, StaffAsks
  <2> QED
    BY <1>1, <2>1 DEF Cleaned, Exists, Unfinished
<1>6. CASE \E b \in Browser, n \in Name, plan \in Plans : submit(b, n, plan)
  <2>1. PICK b \in Browser, n \in Name, plan \in Plans : submit(b, n, plan)
    BY <1>6
  <2>2. PICK t \in Thunk, q \in Request : Asks(t, q) /\ open' = open \union {q}
    BY <1>1, <2>1, SubmitAsks
  <2>3. q.step = "sent" /\ UNCHANGED <<projects, faults>>
    BY <2>1, <2>2 DEF Asks, submit, central
  <2>4. wizard'[b].failed = NoProject /\ \A c \in Browser : c # b => wizard'[c] = wizard[c]
    BY <1>1, <2>1, SubmitEffect
  <2> QED
    BY <1>1, <2>2, <2>3, <2>4 DEF Cleaned, Exists, Unfinished
<1>7. CASE \E b \in Browser : SliceStep(b)
  <2>1. PICK b \in Browser : SliceStep(b)
    BY <1>7
  <2>2. /\ UNCHANGED <<projects, open, faults>> /\ Alone(b) /\ wizard'[b].failed = wizard[b].failed
    BY <1>1, <2>1, SliceSteps
  <2>3. \A c \in Browser : wizard'[c].failed = wizard[c].failed
    BY <2>2 DEF Alone
  <2> QED
    BY <1>1, <2>2, <2>3 DEF Cleaned, Exists
<1> QED
  BY <1>1, <1>2, <1>3, <1>4, <1>5, <1>6, <1>7, Steps

\* A submission that is still being made.
InMaking(t) == t.step \notin {"manager", "delete"}

\* Unless two submissions have met, a wizard makes one project at a time, and shows no other one.
OneMaking ==
  \A b \in Browser : ~wizard[b].mixed =>
    /\ \A t, u \in thunk : t.by = b /\ u.by = b /\ InMaking(t) /\ InMaking(u) => t = u
    /\ \A t \in thunk : t.by = b /\ InMaking(t) => ~wizard[b].generateProjectSuccess

\* Which submissions are being made after a turn.
LEMMA TurnMaking ==
  ASSUME Core, NEW t \in thunk, NEW r \in open, Waits(t, r), NEW rest, Turned(t, r, rest)
  PROVE  \/ \A u \in thunk' : InMaking(u) => u \in thunk /\ (u = t => ~InMaking(t))
         \/ \E next \in Thunk :
              /\ next.by = t.by /\ InMaking(t) /\ next.step # "create"
              /\ \A u \in thunk' : u \in thunk \ {t} \/ u = next
              /\ \/ UNCHANGED wizard /\ t.step # "create" /\ next.projectId = t.projectId
                 \/ Created(t, r, rest) /\ next.projectId = r.id
<1>1. t \in Thunk /\ (t.step # "create" => t.projectId \in created)
      /\ (r.kind = "create" /\ r.step = "ok" => r.id \in created) /\ t.step = r.kind
  BY ThunkFields DEF Core, Requests, Waits
<1>2. CASE Ended(t, rest)
  BY <1>2 DEF Ended
<1>3. ASSUME NEW kind \in {"manager", "delete"}, t.step # "create", Called(t, t.projectId, kind, rest)
      PROVE  \A u \in thunk' : InMaking(u) => u \in thunk /\ (u = t => ~InMaking(t))
  BY <1>1, <1>3, CalledIs DEF InMaking, Kind
<1>4. ASSUME NEW kind \in {"boundaries", "extract", "additional", "generate"}, NEW id \in created,
             Called(t, id, kind, rest)
      PROVE  \E next \in Thunk : /\ next.by = t.by /\ next.step # "create" /\ next.projectId = id
                                 /\ \A u \in thunk' : u \in thunk \ {t} \/ u = next
  BY <1>1, <1>4, CalledIs DEF Kind
<1>5. CASE Created(t, r, rest)
  BY <1>1, <1>4, <1>5 DEF Created, InMaking
<1>6. CASE Proceeded(t, rest)
  BY <1>1, <1>4, <1>6 DEF Proceeded, InMaking
<1>7. CASE GaveUp(t, rest)
  BY <1>3, <1>7 DEF GaveUp
<1>8. CASE Generated(t, r, rest)
  BY <1>2, <1>3, <1>8 DEF Generated
<1>9. CASE Assigned(t, rest)
  BY <1>2, <1>9 DEF Assigned, InMaking
<1>10. CASE Stopped(t, rest) \/ Deleted(t, r, rest)
  BY <1>2, <1>10 DEF Stopped, Deleted
<1> QED
  BY <1>5, <1>6, <1>7, <1>8, <1>9, <1>10 DEF Turned

\* That two submissions have met is never forgotten.
LEMMA MixedStays ==
  ASSUME Core, NEW b \in Browser, Next, wizard[b].mixed
  PROVE  wizard'[b].mixed
<1>1. CASE \E r \in open : backend(r)
  BY <1>1, BackendPasses DEF Core
<1>2. CASE \E r \in open : receive(r) \/ lose(r)
  <2>1. PICK r \in open : receive(r) \/ lose(r)
    BY <1>2
  <2>2. PICK t \in thunk : \E rest : Waits(t, r) /\ Left(t, rest) /\ Turned(t, r, rest)
    BY <2>1, Turns
  <2>3. PICK rest : Waits(t, r) /\ Left(t, rest) /\ Turned(t, r, rest)
    BY <2>2
  <2>4. t.by \in Browser /\ Alone(t.by)
    BY <2>3, ThunkFields, TurnAlone
  <2>5. CASE b # t.by
    BY <2>4, <2>5 DEF Alone
  <2>6. CASE b = t.by
    <3>1. CASE Created(t, r, rest)
      BY <2>3, <2>6, <3>1, CreatedEffect, Zenon DEF Steady
    <3>2. CASE Generated(t, r, rest)
      BY <2>3, <2>6, <3>2, GeneratedEffect, Zenon DEF Steady
    <3>3. CASE Proceeded(t, rest) \/ UNCHANGED wizard
      BY <3>3 DEF Proceeded
    <3>4. CASE \E e \in BOOLEAN : show(t.by, [wizard[t.by] EXCEPT !.generateProjectError = e])
      BY <2>4, <2>6, <3>4, ErrorEffect, Zenon DEF Steady
    <3>5. GaveUp(t, rest) => \E e \in BOOLEAN : show(t.by, [wizard[t.by] EXCEPT !.generateProjectError = e])
      BY DEF GaveUp
    <3>6. Assigned(t, rest) => UNCHANGED wizard \/ \E e \in BOOLEAN : show(t.by, [wizard[t.by] EXCEPT !.generateProjectError = e])
      BY DEF Assigned
    <3>7. CASE Stopped(t, rest)
      BY <2>6, <3>7, StoppedEffect, Zenon
    <3>8. CASE Deleted(t, r, rest)
      BY <2>3, <2>6, <3>8, DeletedEffect, Zenon
    <3> QED
      BY <2>3, <3>1, <3>2, <3>3, <3>4, <3>5, <3>6, <3>7, <3>8 DEF Turned
  <2> QED
    BY <2>5, <2>6
<1>3. CASE \E p \in Project : staff_delete(p)
  BY <1>3, StaffAsks
<1>4. CASE \E c \in Browser, n \in Name, plan \in Plans : submit(c, n, plan)
  <2>1. PICK c \in Browser, n \in Name, plan \in Plans : submit(c, n, plan)
    BY <1>4
  <2>2. wizard'[c].mixed = (wizard[c].mixed \/ Making(c) \/ wizard[c].generateProjectSuccess)
        /\ (b # c => wizard'[b] = wizard[b])
    BY <2>1, SubmitEffect
  <2>3. CASE b = c
    BY <2>2, <2>3, Zenon
  <2>4. CASE b # c
    BY <2>2, <2>4
  <2> QED
    BY <2>3, <2>4
<1>5. CASE \E c \in Browser : SliceStep(c)
  <2>1. PICK c \in Browser : SliceStep(c)
    BY <1>5
  <2> QED
    BY <2>1, SliceSteps, Zenon DEF Alone
<1> QED
  BY <1>1, <1>2, <1>3, <1>4, <1>5, Steps

\* What the slice is after a turn of a submission that is not being made any more.
LEMMA TurnLate ==
  ASSUME Core, NEW t \in thunk, NEW r \in open, Waits(t, r), NEW rest, Turned(t, r, rest), ~InMaking(t)
  PROVE  Kept(t.by)
<1>1. t.by \in Browser
  BY ThunkFields
<1>2. UNCHANGED wizard => Kept(t.by)
  BY DEF Kept
<1>3. \A e \in BOOLEAN : show(t.by, [wizard[t.by] EXCEPT !.generateProjectError = e]) => Kept(t.by)
  BY <1>1, ErrorEffect
<1>4. \/ UNCHANGED wizard \/ Deleted(t, r, rest)
      \/ \E e \in BOOLEAN : show(t.by, [wizard[t.by] EXCEPT !.generateProjectError = e])
  BY DEF Turned, Created, Proceeded, GaveUp, Stopped, Generated, Assigned, InMaking
<1>5. CASE Deleted(t, r, rest)
  BY <1>5, DeletedEffect, Zenon
<1> QED
  BY <1>2, <1>3, <1>4, <1>5, Zenon

LEMMA OneMakingTurn ==
  ASSUME Core, OneMaking, NEW r \in open, Next, receive(r) \/ lose(r)
  PROVE  OneMaking'
<1>1. PICK t \in thunk : \E rest : Waits(t, r) /\ Left(t, rest) /\ Turned(t, r, rest)
  BY Turns
<1>2. PICK rest : Waits(t, r) /\ Left(t, rest) /\ Turned(t, r, rest)
  BY <1>1
<1>3. t.by \in Browser /\ Alone(t.by)
  BY <1>2, ThunkFields, TurnAlone
<1>4. SUFFICES ASSUME NEW b \in Browser, ~wizard'[b].mixed
               PROVE  /\ \A u, v \in thunk' : u.by = b /\ v.by = b /\ InMaking(u) /\ InMaking(v) => u = v
                      /\ \A u \in thunk' : u.by = b /\ InMaking(u) =>
                           ~wizard'[b].generateProjectSuccess
  BY DEF OneMaking
<1>5. ~wizard[b].mixed
  BY <1>4, MixedStays
<1>6. /\ \A u, v \in thunk : u.by = b /\ v.by = b /\ InMaking(u) /\ InMaking(v) => u = v
      /\ \A u \in thunk : u.by = b /\ InMaking(u) =>
           ~wizard[b].generateProjectSuccess
  BY <1>5 DEF OneMaking
<1>7. \A u \in thunk' : InMaking(u) /\ u.by = b => \E v \in thunk : InMaking(v) /\ v.by = b
  BY <1>2, TurnMaking
<1>8. \A u, v \in thunk' : u.by = b /\ v.by = b /\ InMaking(u) /\ InMaking(v) => u = v
  <2>1. CASE \A u \in thunk' : InMaking(u) => u \in thunk /\ (u = t => ~InMaking(t))
    BY <1>6, <2>1
  <2>2. CASE \E next \in Thunk : /\ next.by = t.by /\ InMaking(t)
                                 /\ \A u \in thunk' : u \in thunk \ {t} \/ u = next
    BY <1>6, <2>2
  <2> QED
    BY <1>2, <2>1, <2>2, TurnMaking
<1>9. ASSUME NEW u \in thunk', u.by = b, InMaking(u)
      PROVE  ~wizard'[b].generateProjectSuccess
  <2>0. ~wizard[b].generateProjectSuccess
    BY <1>6, <1>7, <1>9, Zenon
  <2>1. CASE b # t.by
    BY <1>3, <2>0, <2>1 DEF Alone
  <2>2. CASE b = t.by /\ InMaking(t)
    <3>1. UNCHANGED wizard \/ Created(t, r, rest)
      BY <1>2, <1>6, <1>9, <2>2, TurnMaking
    <3>2. CASE UNCHANGED wizard
      BY <2>0, <3>2
    <3>3. CASE Created(t, r, rest)
      <4>1. wizard'[t.by].generateProjectSuccess = wizard[t.by].generateProjectSuccess
        BY <1>2, <3>3, CreatedEffect
      <4> QED
        BY <2>0, <2>2, <4>1, Zenon
    <3> QED
      BY <3>1, <3>2, <3>3
  <2>3. CASE b = t.by /\ ~InMaking(t)
    BY <1>2, <2>0, <2>3, TurnLate, Zenon DEF Kept
  <2> QED
    BY <2>1, <2>2, <2>3
<1> QED
  BY <1>8, <1>9

LEMMA OneMakingNext == Core /\ OneMaking /\ [Next]_vars => OneMaking'
<1>1. SUFFICES ASSUME Core, OneMaking, [Next]_vars PROVE OneMaking'
  OBVIOUS
<1>2. CASE UNCHANGED vars
  BY <1>1, <1>2 DEF vars, OneMaking
<1>3. CASE \E r \in open : backend(r)
  <2>1. UNCHANGED <<thunk, wizard>>
    BY <1>1, <1>3, BackendPasses DEF Core
  <2> QED
    BY <1>1, <2>1 DEF OneMaking
<1>4. CASE \E r \in open : receive(r) \/ lose(r)
  BY <1>1, <1>4, OneMakingTurn DEF Next
<1>5. CASE \E p \in Project : staff_delete(p)
  <2>1. UNCHANGED <<thunk, wizard>>
    BY <1>1, <1>5, StaffAsks
  <2> QED
    BY <1>1, <2>1 DEF OneMaking
<1>6. CASE \E b \in Browser, n \in Name, plan \in Plans : submit(b, n, plan)
  <2>1. PICK b \in Browser, n \in Name, plan \in Plans : submit(b, n, plan)
    BY <1>6
  <2>2. /\ \A c \in Browser : c # b => wizard'[c] = wizard[c]
        /\ wizard'[b].mixed = (wizard[b].mixed \/ Making(b) \/ wizard[b].generateProjectSuccess)
        /\ wizard'[b].generateProjectSuccess = wizard[b].generateProjectSuccess
    BY <1>1, <2>1, SubmitEffect DEF Kept
  <2>3. Making(b) <=> \E u \in thunk : u.by = b /\ InMaking(u)
    BY DEF Making, InMaking
  <2>4. PICK t \in Thunk : t.by = b /\ thunk' = thunk \union {t}
    BY <1>1, <2>1, SubmitAsks
  <2>5. ASSUME NEW c \in Browser, ~wizard'[c].mixed
        PROVE  /\ \A u, v \in thunk' : u.by = c /\ v.by = c /\ InMaking(u) /\ InMaking(v) => u = v
               /\ \A u \in thunk' : u.by = c /\ InMaking(u) => ~wizard'[c].generateProjectSuccess
    <3>1. CASE c # b
      <4>1. \A u \in thunk' : u.by = c => u \in thunk
        BY <2>4, <3>1
      <4>2. wizard'[c] = wizard[c]
        BY <2>2, <3>1
      <4> QED
        BY <1>1, <2>5, <4>1, <4>2 DEF OneMaking
    <3>2. CASE c = b
      <4>1. ~Making(b) /\ ~wizard'[b].generateProjectSuccess
        BY <2>2, <2>5, <3>2, Zenon
      <4> QED
        BY <2>3, <2>4, <3>2, <4>1
    <3> QED
      BY <3>1, <3>2
  <2> QED
    BY <2>5 DEF OneMaking
<1>7. CASE \E b \in Browser : SliceStep(b)
  <2>1. PICK b \in Browser : SliceStep(b)
    BY <1>7
  <2>2. thunk' = thunk /\ \A c \in Browser : wizard'[c].mixed = wizard[c].mixed
    BY <1>1, <2>1, SliceSteps, Zenon DEF Alone
  <2>3. \A c \in Browser : wizard'[c].generateProjectSuccess => wizard[c].generateProjectSuccess
    BY <1>1, <2>1, SliceSteps, RedirectEffect, Elsewhere, Zenon DEF Alone, Kept
  <2> QED
    BY <1>1, <2>2, <2>3 DEF OneMaking
<1> QED
  BY <1>1, <1>2, <1>3, <1>4, <1>5, <1>6, <1>7, Steps

\* While no answer is lost: a creation that has passed the check of the name is alone with it.
Named ==
  losses = 0 =>
    /\ \A r \in open : r.kind = "create" => r.live
    /\ \A r \in open : r.kind = "create" /\ r.step \in {"odk", "row"} /\ ~wizard[r.by].mixed =>
         \A p \in Project : ~(Exists(p) /\ projects[p].by = r.by /\ projects[p].name = r.name)
    /\ RetryNoNamesake

\* Two creations of one wizard cannot be waited for at once.
LEMMA OneCreation ==
  ASSUME Core, OneMaking, NEW r \in open, NEW q \in open, r.kind = "create", q.kind = "create",
         r.live, q.live, r.by = q.by, ~wizard[r.by].mixed
  PROVE  r = q
<1>1. PICK t \in thunk : t.by = r.by /\ t.try = r.try /\ t.step = "create"
  BY DEF Core, Heard
<1>2. PICK u \in thunk : u.by = q.by /\ u.try = q.try /\ u.step = "create"
  BY DEF Core, Heard
<1>3. t.by \in Browser
  BY ThunkFields
<1>4. t = u
  BY <1>1, <1>2, <1>3 DEF OneMaking, InMaking
<1> QED
  BY <1>1, <1>2, <1>4 DEF Core, Heard

\* A row keeps its name and its wizard.
LEMMA NamesKept ==
  ASSUME Core, NEW r \in open, backend(r), NEW p \in Project, projects'[p] # NoRow, ~(create_row(r) /\ p = r.id)
  PROVE  projects[p] # NoRow /\ projects'[p].by = projects[p].by /\ projects'[p].name = projects[p].name
<1>1. projects \in [Project -> Row \union {NoRow}] /\ TypeOK
  BY DEF Core, TypeOK
<1>2. CASE projects'[p] = projects[p]
  BY <1>2
<1>3. CASE p = r.id /\ projects[p] # NoRow
  <2>1. projects[p] \in Row /\ Exists(r.id)
    BY <1>1, <1>3 DEF Exists
  <2>2. /\ projects'[p].by = projects[p].by
        /\ projects'[p].name = projects[p].name
    <3>1. CASE delete_row(r)
      BY <1>1, <1>3, <3>1 DEF delete_row
    <3>2. CASE \/ upload_project_task_boundaries(r) \/ get_or_set_data_extract(r) \/ upload_custom_extract(r)
      BY <1>1, <1>3, <2>1, <3>2 DEF upload_project_task_boundaries, get_or_set_data_extract,
           upload_custom_extract, DbTask_create, DbProject_update, Row
    <3>3. CASE generate_files(r) \/ generate_commit(r) \/ add_new_project_manager(r)
      BY <1>1, <1>3, <2>1, <3>3 DEF generate_files, generate_commit, add_new_project_manager,
           DbProject_update, Row
    <3>4. CASE \/ refuse(r) \/ create_check(r) \/ create_odk_project(r) \/ add_additional_entity_list(r)
            \/ create_entity_list(r) \/ create_odk_xform(r) \/ get_appuser_token(r)
            \/ delete_odk_project(r) \/ delete_all_objs_under_prefix(r)
      BY <3>4 DEF refuse, create_check, create_odk_project, add_additional_entity_list, create_entity_list,
       create_odk_xform, get_appuser_token, generate_content, delete_odk_project, delete_all_objs_under_prefix
    <3>5. ~create_row(r)
      BY <1>3
    <3> QED
      BY <3>1, <3>2, <3>3, <3>4, <3>5 DEF backend
  <2> QED
    BY <1>3, <2>2
<1>4. CASE p = r.id /\ projects[p] = NoRow
  <2>1. ~create_row(r)
    BY <1>4
  <2>2. projects' = projects \/ Exists(r.id) \/ delete_row(r)
    BY <2>1 DEF backend, refuse, create_check, create_odk_project, upload_project_task_boundaries,
         get_or_set_data_extract, upload_custom_extract, add_additional_entity_list, generate_files,
         create_entity_list, create_odk_xform, get_appuser_token, generate_content, generate_commit,
         add_new_project_manager, delete_odk_project, delete_all_objs_under_prefix, delete_row, DbProject_update
  <2>3. CASE delete_row(r)
    BY <1>1, <1>4, <2>3 DEF delete_row
  <2> QED
    BY <1>4, <2>2, <2>3 DEF Exists
<1>5. CASE p # r.id /\ p \notin created' \ created
  BY <1>5, OthersKept
<1>6. CASE p \in created' \ created
  <2>1. projects' = projects
    BY <1>6, CreationIs DEF create_odk_project
  <2> QED
    BY <2>1
<1> QED
  BY <1>2, <1>3, <1>4, <1>5, <1>6

LEMMA NamedBackend ==
  ASSUME Core, Fresh, OneMaking, Named, NEW r \in open, backend(r)
  PROVE  Named'
<1>1. Passes(r) /\ wizard' = wizard /\ losses' = losses /\ thunk' = thunk
  BY BackendPasses DEF Core
<1>2. SUFFICES ASSUME losses = 0
               PROVE  /\ \A q \in open' : q.kind = "create" => q.live
                      /\ \A q \in open' : q.kind = "create" /\ q.step \in {"odk", "row"} /\ ~wizard[q.by].mixed =>
                           \A p \in Project : ~(projects'[p] # NoRow /\ projects'[p].by = q.by /\ projects'[p].name = q.name)
                      /\ \A p, q \in Project :
                           projects'[p] # NoRow /\ projects'[q] # NoRow /\ projects'[p].by = projects'[q].by
                             /\ ~wizard[projects'[p].by].mixed
                             /\ projects'[p].name = projects'[q].name => p = q
  BY <1>1 DEF Named, RetryNoNamesake, Exists
<1>3. /\ \A q \in open : q.kind = "create" => q.live
      /\ \A q \in open : q.kind = "create" /\ q.step \in {"odk", "row"} /\ ~wizard[q.by].mixed =>
           \A p \in Project : ~(projects[p] # NoRow /\ projects[p].by = q.by /\ projects[p].name = q.name)
      /\ \A p, q \in Project :
           projects[p] # NoRow /\ projects[q] # NoRow /\ projects[p].by = projects[q].by
             /\ ~wizard[projects[p].by].mixed
             /\ projects[p].name = projects[q].name => p = q
  BY <1>2 DEF Named, RetryNoNamesake, Exists
<1>4. ASSUME NEW q \in open', q.kind = "create"
      PROVE  q.live /\ (q \notin open \ {r} => r.kind = "create" /\ r.by = q.by /\ r.name = q.name)
  BY <1>1, <1>3, <1>4 DEF Passes, Follows
<1>5. r \in Request /\ projects \in [Project -> Row \union {NoRow}] /\ created \subseteq Project
  BY DEF Core, TypeOK
\* The row that a creation writes.
<1>6. create_row(r) => /\ r.kind = "create" /\ r.step = "row" /\ r.id \in Project
                       /\ projects'[r.id].by = r.by /\ projects'[r.id].name = r.name
  <2>1. SUFFICES ASSUME create_row(r)
                 PROVE  /\ r.kind = "create" /\ r.step = "row" /\ r.id \in Project
                        /\ projects'[r.id].by = r.by /\ projects'[r.id].name = r.name
    OBVIOUS
  <2>2. r.kind = "create" /\ r.step = "row"
    BY <2>1 DEF create_row
  <2>3. r.id \in Project
    BY <2>2, IdMade
  <2> QED
    BY <1>5, <2>1, <2>2, <2>3 DEF create_row
<1>7. ASSUME NEW q \in open', q.kind = "create", q.step \in {"odk", "row"}, ~wizard[q.by].mixed,
             NEW p \in Project, projects'[p] # NoRow, projects'[p].by = q.by, projects'[p].name = q.name
      PROVE  FALSE
  <2>1. CASE create_row(r) /\ p = r.id
    <3>1. r.by = q.by /\ r.kind = "create" /\ r.live
      BY <1>3, <1>6, <1>7, <2>1
    <3>2. q \in open \ {r}
      <4>1. \A a \in Answered(r, "ok") : a \in open \ {r} \/ a.step = "ok"
        <5>1. [r EXCEPT !.step = "ok"].step = "ok"
          BY <1>5, StepTo DEF Step
        <5> QED
          BY <5>1 DEF Answered
      <4> QED
        BY <1>7, <2>1, <4>1 DEF create_row
    <3>3. r = q
      BY <1>4, <1>7, <3>1, <3>2, OneCreation
    <3> QED
      BY <3>2, <3>3
  <2>2. CASE ~(create_row(r) /\ p = r.id)
    <3>1. projects[p] # NoRow /\ projects[p].by = q.by /\ projects[p].name = q.name
      BY <1>7, <2>2, NamesKept
    <3>2. CASE q \in open \ {r}
      BY <1>3, <1>7, <3>1, <3>2
    <3>3. CASE q \notin open \ {r}
      <4>1. r.kind = "create" /\ r.by = q.by /\ r.name = q.name
        BY <1>4, <1>7, <3>3
      <4>2. r.step \notin {"odk", "row"}
        BY <1>3, <1>7, <3>1, <4>1
      <4>3. refuse(r) \/ create_check(r)
        BY <4>1, <4>2 DEF backend, create_odk_project, create_row, upload_project_task_boundaries,
           get_or_set_data_extract, upload_custom_extract, add_additional_entity_list, generate_files,
           create_entity_list, create_odk_xform, get_appuser_token, generate_content, generate_commit,
           add_new_project_manager, delete_odk_project, delete_all_objs_under_prefix, delete_row
      <4>4. CASE refuse(r)
        <5>1. [r EXCEPT !.step = "error"].step = "error"
          BY <1>5, StepTo DEF Step
        <5> QED
          BY <1>7, <3>3, <4>4, <5>1 DEF refuse, Answered
      <4>5. CASE create_check(r)
        BY <3>1, <4>1, <4>5 DEF create_check, Taken, Exists
      <4> QED
        BY <4>3, <4>4, <4>5
    <3> QED
      BY <3>2, <3>3
  <2> QED
    BY <2>1, <2>2
<1>8. ASSUME NEW p \in Project, NEW q \in Project, projects'[p] # NoRow, projects'[q] # NoRow,
             projects'[p].by = projects'[q].by, ~wizard[projects'[p].by].mixed,
             projects'[p].name = projects'[q].name, p # q
      PROVE  FALSE
  <2>1. CASE create_row(r) /\ (p = r.id \/ q = r.id)
    <3>1. PICK x \in {p, q} : x # r.id
      BY <1>8
    <3>2. /\ projects[x] # NoRow /\ projects'[x].by = projects[x].by /\ projects'[x].name = projects[x].name
      BY <1>8, <3>1, NamesKept
    <3>3. projects[x].by = r.by /\ projects[x].name = r.name /\ ~wizard[r.by].mixed
      BY <1>6, <1>8, <2>1, <3>1, <3>2
    <3> QED
      BY <1>3, <1>6, <2>1, <3>1, <3>2, <3>3
  <2>2. CASE ~(create_row(r) /\ (p = r.id \/ q = r.id))
    <3>1. /\ projects[p] # NoRow /\ projects'[p].by = projects[p].by /\ projects'[p].name = projects[p].name
          /\ projects[q] # NoRow /\ projects'[q].by = projects[q].by /\ projects'[q].name = projects[q].name
      BY <1>8, <2>2, NamesKept
    <3> QED
      BY <1>3, <1>8, <3>1
  <2> QED
    BY <2>1, <2>2
<1> QED
  BY <1>4, <1>7, <1>8

LEMMA NamedTurn ==
  ASSUME Core, Named, NEW r \in open, Next, receive(r) \/ lose(r)
  PROVE  Named'
<1>1. PICK t \in thunk : \E rest : Waits(t, r) /\ Left(t, rest) /\ Turned(t, r, rest)
  BY Turns
<1>2. PICK rest : Waits(t, r) /\ Left(t, rest) /\ Turned(t, r, rest)
  BY <1>1
<1>3. projects' = projects
  BY TurnUnchanged
<1>4. SUFFICES ASSUME losses' = 0
               PROVE  /\ \A q \in open' : q.kind = "create" => q.live
                      /\ \A q \in open' : q.kind = "create" /\ q.step \in {"odk", "row"} /\ ~wizard'[q.by].mixed =>
                           \A p \in Project : ~(Exists(p) /\ projects[p].by = q.by /\ projects[p].name = q.name)
                      /\ \A p, q \in Project :
                           Exists(p) /\ Exists(q) /\ projects[p].by = projects[q].by
                             /\ ~wizard'[projects[p].by].mixed
                             /\ projects[p].name = projects[q].name => p = q
  BY <1>3 DEF Named, RetryNoNamesake, Exists
<1>5. receive(r) /\ losses = 0
  BY <1>4, TurnUnchanged DEF Core, TypeOK
<1>6. /\ \A q \in open : q.kind = "create" => q.live
      /\ \A q \in open : q.kind = "create" /\ q.step \in {"odk", "row"} /\ ~wizard[q.by].mixed =>
           \A p \in Project : ~(Exists(p) /\ projects[p].by = q.by /\ projects[p].name = q.name)
      /\ \A p, q \in Project :
           Exists(p) /\ Exists(q) /\ projects[p].by = projects[q].by
             /\ ~wizard[projects[p].by].mixed
             /\ projects[p].name = projects[q].name => p = q
  BY <1>5 DEF Named, RetryNoNamesake
<1>7. r.live /\ r.by = t.by /\ r.try = t.try /\ ~Unfinished(r)
  BY <1>2, <1>5 DEF receive, Waits, Unfinished
<1>8. ASSUME NEW q \in open', q.kind = "create"
      PROVE  q \in open
  <2>1. q \in rest
    <3>1. CASE q \notin rest
      <4>1. Advances(t, rest)
        BY <1>2, TurnAdvances
      <4>2. PICK id \in created, kind \in Kind \ {"create"} : Called(t, id, kind, rest)
        BY <3>1, <4>1 DEF Advances, Ended
      <4>3. q.kind = kind
        BY <3>1, <4>2, CalledIs DEF Asks
      <4> QED
        BY <1>8, <4>3
    <3> QED
      BY <3>1
  <2>2. ASSUME q \notin open
        PROVE  FALSE
    <3>1. Unfinished(q) /\ \E o \in open : q = Muted(o) /\ o.by = t.by /\ o.try = t.try
      BY <1>2, <2>1, <2>2 DEF Left
    <3>2. PICK o \in open : q = Muted(o) /\ o.by = t.by /\ o.try = t.try
      BY <3>1
    <3>3. o.kind = "create" /\ (Unfinished(o) <=> Unfinished(q))
      BY <1>8, <3>2 DEF Core, TypeOK, Request, Muted, Unfinished
    <3>4. o.live
      BY <1>6, <3>3
    <3>5. o = r
      BY <1>7, <3>2, <3>3, <3>4 DEF Core, Heard
    <3> QED
      BY <1>7, <3>1, <3>3, <3>5
  <2> QED
    BY <2>2
<1>9. \A b \in Browser : ~wizard'[b].mixed => ~wizard[b].mixed
  BY MixedStays
<1>10. \A q \in open : q.kind = "create" => q.by \in Browser
  BY RequestFields DEF Core, TypeOK, Requests
<1>11. \A p \in Project : Exists(p) => projects[p].by \in Browser
  BY RowTyped DEF Core, Row
<1> QED
  BY <1>6, <1>8, <1>9, <1>10, <1>11

LEMMA NamedNext == Core /\ Fresh /\ OneMaking /\ Named /\ [Next]_vars => Named'
<1>1. SUFFICES ASSUME Core, Fresh, OneMaking, Named, [Next]_vars PROVE Named'
  OBVIOUS
<1>2. CASE UNCHANGED vars
  BY <1>1, <1>2 DEF vars, Named, RetryNoNamesake, Exists
<1>3. CASE \E r \in open : backend(r)
  BY <1>1, <1>3, NamedBackend
<1>4. CASE \E r \in open : receive(r) \/ lose(r)
  BY <1>1, <1>4, NamedTurn DEF Next
<1>5. ASSUME Next, \A q \in open' : q \in open \/ (q.step = "sent" /\ (q.kind = "create" => q.live)),
             UNCHANGED <<projects, losses>>
      PROVE  Named'
  <2>1. \A b \in Browser : ~wizard'[b].mixed => ~wizard[b].mixed
    BY <1>1, <1>5, MixedStays
  <2>2. \A q \in open : q.kind = "create" => q.by \in Browser
    BY <1>1, RequestFields DEF Core, TypeOK, Requests
  <2>3. \A p \in Project : Exists(p) => projects[p].by \in Browser
    BY <1>1, RowTyped DEF Core, Row
  <2>4. ASSUME losses = 0
        PROVE  /\ \A q \in open' : q.kind = "create" => q.live
               /\ \A q \in open' : q.kind = "create" /\ q.step \in {"odk", "row"} /\ ~wizard'[q.by].mixed =>
                    \A p \in Project : ~(Exists(p) /\ projects[p].by = q.by /\ projects[p].name = q.name)
               /\ \A p, q \in Project :
                    Exists(p) /\ Exists(q) /\ projects[p].by = projects[q].by
                      /\ ~wizard'[projects[p].by].mixed
                      /\ projects[p].name = projects[q].name => p = q
    BY <1>1, <1>5, <2>1, <2>2, <2>3, <2>4 DEF Named, RetryNoNamesake
  <2> QED
    BY <1>5, <2>4 DEF Named, RetryNoNamesake, Exists
<1>6. CASE \E p \in Project : staff_delete(p)
  <2>1. PICK q \in Request : /\ q.step = "sent" /\ q.kind = "delete" /\ open' = open \union {q}
                             /\ UNCHANGED <<projects, losses>>
    BY <1>1, <1>6, StaffAsks
  <2>2. \A x \in open' : x \in open \/ (x.step = "sent" /\ (x.kind = "create" => x.live))
    BY <2>1
  <2>3. Next
    BY <1>6 DEF Next
  <2> QED
    BY <1>5, <2>1, <2>2, <2>3
<1>7. CASE \E b \in Browser, n \in Name, plan \in Plans : submit(b, n, plan)
  <2>1. PICK b \in Browser, n \in Name, plan \in Plans : submit(b, n, plan)
    BY <1>7
  <2>2. PICK t \in Thunk, q \in Request : Asks(t, q) /\ open' = open \union {q}
    BY <1>1, <2>1, SubmitAsks
  <2>3. \A x \in open' : x \in open \/ (x.step = "sent" /\ (x.kind = "create" => x.live))
    BY <2>2 DEF Asks
  <2>4. UNCHANGED <<projects, losses>>
    BY <2>1 DEF submit
  <2>5. Next
    BY <2>1 DEF Next
  <2> QED
    BY <1>5, <2>3, <2>4, <2>5
<1>8. CASE \E b \in Browser : SliceStep(b)
  <2>1. UNCHANGED <<projects, open, losses>>
    BY <1>1, <1>8, SliceSteps
  <2>2. Next
    BY <1>8 DEF Next, SliceStep
  <2> QED
    BY <1>5, <2>1, <2>2
<1> QED
  BY <1>1, <1>2, <1>3, <1>4, <1>6, <1>7, <1>8, Steps

\* A submission that failed is out of the way of the next one: unless something failed in the
\* backend, no row of it is left once the wizard says so, and unless an answer was lost, or two
\* submissions of a wizard have met, a wizard never makes two projects of one name.
THEOREM RetryIsCleanHolds == Spec => []RetryIsClean
<1>1. Init => Core /\ Fresh /\ Cleaned /\ OneMaking /\ Named
  <2>1. Init => Fresh /\ Cleaned /\ OneMaking /\ Named
    BY DEF Init, Fresh, Cleaned, OneMaking, Named, RetryNoNamesake, Exists
  <2> QED
    BY <2>1, CoreInit
<1>2. Core /\ Fresh /\ Cleaned /\ OneMaking /\ Named /\ [Next]_vars => (Core /\ Fresh /\ Cleaned /\ OneMaking /\ Named)'
  BY CoreNext, FreshNext, CleanedNext, OneMakingNext, NamedNext
<1>3. Cleaned /\ Named => RetryIsClean
  BY DEF Cleaned, Named, RetryIsClean, FailureCleansUp, RetryNoNamesake
<1> QED
  BY <1>1, <1>2, <1>3, PTL DEF Spec

-----------------------------------------------------------------------------
(* The project that the wizard shows. *)

\* A project that was made to the end, or is still generated in the background, unless it was deleted.
Good(p, warned) ==
  /\ p \in created
  /\ p \notin condemned => /\ projects[p] # NoRow /\ projects[p].odk_form_id
                           /\ warned \/ projects[p].odk_token

\* What the wizard will show is good: a running delay, the slice.
Leads(b) ==
  /\ \A d \in wizard[b].redirects : Good(d.id, d.warning)
  /\ wizard[b].generateProjectSuccess =>
       Good(wizard[b].projectDetailsResponse, wizard[b].generateProjectWarning)
  /\ \A t \in thunk : t.by = b /\ InMaking(t) /\ t.step # "create" =>
       wizard[b].projectDetailsResponse = t.projectId

\* So is an answer on its way, unless two submissions have met.
Ready ==
  /\ \A r \in open : Deleting(r) => r.id \in condemned
  /\ \A r \in open : r.kind = "generate" /\ r.live /\ r.step = "ok" => Good(r.id, r.plan.big)
  /\ \A b \in Browser : ~wizard[b].mixed => Leads(b)

\* A good project stays good.
LEMMA GoodStays ==
  ASSUME Core, Fresh, Ready, NEW r \in open, backend(r), NEW p \in Project, NEW warned \in BOOLEAN, Good(p, warned)
  PROVE  Good(p, warned)'
<1>1. /\ projects \in [Project -> Row \union {NoRow}] /\ TypeOK /\ created \subseteq created'
      /\ condemned \subseteq condemned'
  <2>1. condemned \subseteq condemned'
    BY DEF backend, refuse, create_check, create_odk_project, create_row, upload_project_task_boundaries,
         get_or_set_data_extract, upload_custom_extract, add_additional_entity_list, generate_files,
         create_entity_list, create_odk_xform, get_appuser_token, generate_content, generate_commit,
         add_new_project_manager, delete_odk_project, delete_all_objs_under_prefix, delete_row, central
  <2> QED
    BY <2>1, CentralTyped DEF Core, TypeOK
<1>2. p \in created
  BY DEF Good
<1>3. SUFFICES ASSUME p \notin condemned'
               PROVE  /\ projects'[p] # NoRow /\ projects'[p].odk_form_id
                      /\ warned \/ projects'[p].odk_token
  BY <1>1, <1>2 DEF Good
<1>4. projects[p] # NoRow /\ projects[p].odk_form_id /\ (warned \/ projects[p].odk_token) /\ projects[p] \in Row
  BY <1>1, <1>3 DEF Good
<1>5. CASE projects'[p] = projects[p]
  BY <1>4, <1>5
<1>6. CASE p # r.id
  BY <1>2, <1>4, <1>6, OthersKept
<1>7. CASE p = r.id
  <2>1. CASE delete_row(r)
    <3>1. Deleting(r)
      BY <2>1 DEF delete_row, Deleting
    <3> QED
      BY <1>1, <1>3, <1>7, <3>1 DEF Ready
  <2>2. CASE create_row(r)
    <3>1. Creating(r)
      BY <2>2 DEF create_row, Creating
    <3> QED
      BY <1>4, <1>7, <3>1 DEF Fresh, Exists
  <2>3. CASE upload_project_task_boundaries(r) \/ get_or_set_data_extract(r) \/ upload_custom_extract(r)
    <3>1. projects'[p] = projects[p] \/ projects'[p] = [projects[p] EXCEPT !.tasks = TRUE]
            \/ projects'[p] = [projects[p] EXCEPT !.data_extract_url = TRUE]
      BY <1>1, <1>7, <2>3 DEF upload_project_task_boundaries, get_or_set_data_extract,
           upload_custom_extract, DbTask_create, DbProject_update
    <3>2. /\ projects'[p] # NoRow /\ projects'[p].odk_form_id = projects[p].odk_form_id
          /\ projects'[p].odk_token = projects[p].odk_token
      BY <1>4, <3>1 DEF Row, NoRow
    <3> QED
      BY <1>4, <3>2, Zenon
  <2>4. CASE generate_files(r) \/ generate_commit(r)
    <3>1. projects'[p] = projects[p] \/ projects'[p] = [projects[p] EXCEPT !.odk_form_id = TRUE]
            \/ projects'[p] = [projects[p] EXCEPT !.odk_form_id = TRUE, !.odk_token = TRUE]
      BY <1>1, <1>7, <2>4 DEF generate_files, generate_commit, DbProject_update
    <3>2. /\ projects'[p] # NoRow /\ projects'[p].odk_form_id = TRUE
          /\ projects'[p].odk_token = projects[p].odk_token \/ projects'[p].odk_token = TRUE
      BY <1>4, <3>1 DEF Row, NoRow
    <3> QED
      BY <1>4, <3>2, Zenon
  <2>5. CASE add_new_project_manager(r)
    <3>1. projects'[p] = [projects[p] EXCEPT !.managers = projects[p].managers \union {r.admin}]
      BY <1>1, <1>7, <2>5 DEF add_new_project_manager
    <3>2. /\ projects'[p] # NoRow /\ projects'[p].odk_form_id = projects[p].odk_form_id
          /\ projects'[p].odk_token = projects[p].odk_token
      BY <1>4, <3>1 DEF Row, NoRow
    <3> QED
      BY <1>4, <3>2, Zenon
  <2>6. CASE \/ refuse(r) \/ create_check(r) \/ create_odk_project(r) \/ add_additional_entity_list(r)
            \/ create_entity_list(r) \/ create_odk_xform(r) \/ get_appuser_token(r)
            \/ delete_odk_project(r) \/ delete_all_objs_under_prefix(r)
    BY <1>5, <2>6 DEF refuse, create_check, create_odk_project, add_additional_entity_list, create_entity_list,
       create_odk_xform, get_appuser_token, generate_content, delete_odk_project, delete_all_objs_under_prefix
  <2> QED
    BY <2>1, <2>2, <2>3, <2>4, <2>5, <2>6 DEF backend
<1> QED
  BY <1>6, <1>7

\* An answer that the files have been generated is sent when they have been.
LEMMA GoodAnswer ==
  ASSUME Core, NEW r \in open, backend(r), NEW q \in open', q \notin open \ {r},
         q.kind = "generate", q.live, q.step = "ok"
  PROVE  Good(q.id, q.plan.big)'
<1>1. /\ projects \in [Project -> Row \union {NoRow}] /\ TypeOK /\ r \in Request /\ created \subseteq created'
  BY CentralTyped DEF Core, TypeOK
<1>2. Follows(r, q) /\ q.id = r.id
  BY BackendPasses DEF Core, Passes, Creating
<1>3. r.kind = "generate" /\ r.live /\ q.plan = r.plan /\ ~r.task
  BY <1>2 DEF Follows, Core, Requests
<1>4. r.id \in created /\ r.id \in Project
  BY <1>3, IdMade
<1>5. [r EXCEPT !.step = "error"].step = "error"
  BY <1>1, StepTo DEF Step
<1>6. \A s \in {"features", "form", "app_user", "commit"} : [r EXCEPT !.step = s].step = s
  BY <1>1, StepTo DEF Step
<1>7. \/ refuse(r) \/ generate_files(r) \/ create_entity_list(r) \/ create_odk_xform(r)
      \/ get_appuser_token(r) \/ generate_commit(r)
  BY <1>3 DEF backend, create_check, create_odk_project, create_row, upload_project_task_boundaries,
         get_or_set_data_extract, upload_custom_extract, add_additional_entity_list,
         add_new_project_manager, delete_odk_project, delete_all_objs_under_prefix, delete_row
<1>8. CASE refuse(r)
  BY <1>5, <1>8 DEF refuse, Answered
<1>9. CASE create_entity_list(r) \/ create_odk_xform(r) \/ get_appuser_token(r)
  <2>1. \E s \in {"form", "app_user", "commit"} : open' = At(r, s)
    BY <1>9 DEF create_entity_list, create_odk_xform, get_appuser_token, generate_content, After
  <2> QED
    BY <1>6, <2>1 DEF At
<1>10. CASE generate_files(r)
  <2>1. r.plan.big
    BY <1>6, <1>10 DEF generate_files, At
  <2>2. Exists(r.id) /\ projects' = [projects EXCEPT ![r.id] = [projects[r.id] EXCEPT !.odk_form_id = TRUE]]
    BY <1>10, <2>1 DEF generate_files, DbProject_update
  <2>3. projects[r.id] \in Row
    BY <1>1, <1>4, <2>2, RowTyped
  <2>4. projects'[r.id] # NoRow /\ projects'[r.id].odk_form_id
    BY <1>1, <1>4, <2>2, <2>3 DEF Row, NoRow
  <2> QED
    BY <1>1, <1>2, <1>3, <1>4, <2>1, <2>4 DEF Good
<1>11. CASE generate_commit(r)
  <2>1. Exists(r.id) /\ projects' = [projects EXCEPT ![r.id] = [projects[r.id] EXCEPT !.odk_form_id = TRUE, !.odk_token = TRUE]]
    BY <1>3, <1>11 DEF generate_commit, DbProject_update
  <2>2. projects[r.id] \in Row
    BY <1>1, <1>4, <2>1, RowTyped
  <2>3. projects'[r.id] # NoRow /\ projects'[r.id].odk_form_id /\ projects'[r.id].odk_token
    BY <1>1, <1>4, <2>1, <2>2 DEF Row, NoRow
  <2> QED
    BY <1>1, <1>2, <1>4, <2>3 DEF Good
<1> QED
  BY <1>7, <1>8, <1>9, <1>10, <1>11

LEMMA ReadyBackend ==
  ASSUME Core, Fresh, Ready, NEW r \in open, backend(r)
  PROVE  Ready'
<1>1. /\ Passes(r) /\ thunk' = thunk /\ wizard' = wizard /\ open \subseteq Request /\ r \in Request
      /\ created \subseteq Project /\ wizard \in [Browser -> Wizard]
  BY BackendPasses DEF Core, TypeOK
<1>2. condemned \subseteq condemned'
  BY DEF backend, refuse, create_check, create_odk_project, create_row, upload_project_task_boundaries,
         get_or_set_data_extract, upload_custom_extract, add_additional_entity_list, generate_files,
         create_entity_list, create_odk_xform, get_appuser_token, generate_content, generate_commit,
         add_new_project_manager, delete_odk_project, delete_all_objs_under_prefix, delete_row, central
<1>3. ASSUME NEW p, NEW warned \in BOOLEAN, Good(p, warned)
      PROVE  Good(p, warned)'
  <2>1. p \in Project
    BY <1>1, <1>3 DEF Good
  <2> QED
    BY <1>3, <2>1, GoodStays
<1>4. ASSUME NEW q \in open', Deleting(q)
      PROVE  q.id \in condemned'
  <2>1. CASE q \in open \ {r}
    BY <1>2, <1>4, <2>1 DEF Ready
  <2>2. CASE q \notin open \ {r}
    <3>1. q.kind = "delete" /\ q.step \in {"s3", "row"} /\ r.kind = "delete" /\ q.id = r.id
      BY <1>1, <1>4, <2>2 DEF Passes, Follows, Deleting, Creating
    <3>2. CASE delete_odk_project(r)
      BY <3>1, <3>2 DEF delete_odk_project
    <3>3. CASE delete_all_objs_under_prefix(r)
      BY <1>2, <3>1, <3>3 DEF delete_all_objs_under_prefix, Ready, Deleting
    <3>4. CASE refuse(r) \/ delete_row(r)
      <4>1. \E s \in {"ok", "error"} : open' = Answered(r, s)
        BY <3>4 DEF refuse, delete_row
      <4>2. \E s \in {"ok", "error"} : q = [r EXCEPT !.step = s] /\ s \in Step
        BY <1>1, <2>2, <4>1, AnsweredIs
      <4> QED
        BY <1>1, <3>1, <4>2, StepTo
    <3> QED
      BY <3>1, <3>2, <3>3, <3>4 DEF backend, create_check, create_odk_project, create_row,
         upload_project_task_boundaries, get_or_set_data_extract, upload_custom_extract,
         add_additional_entity_list, generate_files, create_entity_list, create_odk_xform,
         get_appuser_token, generate_content, generate_commit, add_new_project_manager
  <2> QED
    BY <2>1, <2>2
<1>5. ASSUME NEW q \in open', q.kind = "generate", q.live, q.step = "ok"
      PROVE  Good(q.id, q.plan.big)'
  <2>1. CASE q \in open \ {r}
    <3>1. Good(q.id, q.plan.big)
      BY <1>5, <2>1 DEF Ready
    <3>2. q.plan.big \in BOOLEAN
      BY <1>1, <2>1 DEF Request, Plan
    <3> QED
      BY <1>3, <3>1, <3>2
  <2>2. CASE q \notin open \ {r}
    BY <1>5, <2>2, GoodAnswer
  <2> QED
    BY <2>1, <2>2
<1>6. ASSUME NEW b \in Browser, ~wizard[b].mixed
      PROVE  /\ \A d \in wizard[b].redirects : Good(d.id, d.warning)'
             /\ wizard[b].generateProjectSuccess =>
                  Good(wizard[b].projectDetailsResponse, wizard[b].generateProjectWarning)'
             /\ \A t \in thunk : t.by = b /\ InMaking(t) /\ t.step # "create" =>
                  wizard[b].projectDetailsResponse = t.projectId
  <2>1. Leads(b) /\ wizard[b] \in Wizard
    BY <1>1, <1>6 DEF Ready
  <2>2. wizard[b].generateProjectWarning \in BOOLEAN /\ \A d \in wizard[b].redirects : d.warning \in BOOLEAN
    BY <2>1 DEF Wizard, Delay
  <2>3. ASSUME NEW d \in wizard[b].redirects
        PROVE  Good(d.id, d.warning)'
    BY <1>3, <2>1, <2>2 DEF Leads
  <2>4. ASSUME wizard[b].generateProjectSuccess
        PROVE  Good(wizard[b].projectDetailsResponse, wizard[b].generateProjectWarning)'
    BY <1>1, <1>3, <2>1, <2>2, <2>4 DEF Leads
  <2> QED
    BY <2>1, <2>3, <2>4 DEF Leads
<1> QED
  BY <1>1, <1>4, <1>5, <1>6 DEF Ready, Leads

\* The requests after a turn: no deletion begins, and no file is answered to have been generated.
LEMMA TurnAnswers ==
  ASSUME Core, NEW t \in thunk, NEW r \in open, Waits(t, r), NEW rest, Left(t, rest), Turned(t, r, rest)
  PROVE  /\ \A q \in open' : Deleting(q) => \E o \in open : Deleting(o) /\ o.id = q.id
         /\ \A q \in open' : q.kind = "generate" /\ q.live /\ q.step = "ok" => q \in open
<1>1. \A q \in open' : q \in rest \/ q.step = "sent"
  BY TurnSpeaks
<1>2. ASSUME NEW q \in open', Deleting(q)
      PROVE  \E o \in open : Deleting(o) /\ o.id = q.id
  <2>1. q \in rest
    BY <1>1, <1>2 DEF Deleting
  <2> QED
    BY <1>2, <2>1, LeftIs DEF Deleting
<1>3. ASSUME NEW q \in open', q.live, q.step = "ok"
      PROVE  q \in open
  <2>1. q \in rest
    BY <1>1, <1>3
  <2> QED
    BY <1>3, <2>1, LeftIs
<1> QED
  BY <1>2, <1>3

\* The slice after the files have been generated.
LEMMA GeneratedLeads ==
  ASSUME Core, Ready, NEW t \in thunk, NEW r \in open, Waits(t, r), r.live, NEW rest, Generated(t, r, rest),
         ~wizard[t.by].mixed
  PROVE  /\ \A d \in wizard'[t.by].redirects : Good(d.id, d.warning)
         /\ Good(wizard'[t.by].projectDetailsResponse, wizard'[t.by].generateProjectWarning)
         /\ wizard'[t.by].projectDetailsResponse = wizard[t.by].projectDetailsResponse
<1>1. t.by \in Browser /\ t.step = "generate" /\ t.plan = r.plan /\ r.kind = "generate" /\ r.step = "ok"
      /\ r.id = t.projectId
  BY ThunkFields DEF Generated, Waits
<1>2. Leads(t.by)
  BY <1>1 DEF Ready
<1>3. wizard[t.by].projectDetailsResponse = r.id
  BY <1>1, <1>2 DEF Leads, InMaking
<1>4. Good(r.id, t.plan.big)
  BY <1>1 DEF Ready
<1>5. /\ wizard'[t.by].projectDetailsResponse = r.id
      /\ wizard'[t.by].generateProjectWarning = (wizard[t.by].generateProjectWarning \/ t.plan.big)
  BY <1>3, GeneratedEffect
<1>6. \A d \in wizard'[t.by].redirects :
              \/ d \in wizard[t.by].redirects
              \/ /\ d.id = r.id
                 /\ d.warning = wizard'[t.by].generateProjectWarning
  BY <1>3, GeneratedEffect
<1>7. PICK m : m = wizard'[t.by].generateProjectWarning
  OBVIOUS
<1>8. Good(r.id, m)
  <2>1. t.plan.big => m
    BY <1>5, <1>7, Zenon
  <2> QED
    BY <1>4, <2>1, Zenon DEF Good
<1>9. \A d \in wizard'[t.by].redirects : Good(d.id, d.warning)
  <2>1. SUFFICES ASSUME NEW d \in wizard'[t.by].redirects PROVE Good(d.id, d.warning)
    OBVIOUS
  <2>2. CASE d \in wizard[t.by].redirects
    BY <1>2, <2>2 DEF Leads
  <2>3. CASE d.id = r.id /\ d.warning = m
    BY <1>8, <2>3, Zenon
  <2> QED
    BY <1>6, <1>7, <2>1, <2>2, <2>3, Zenon
<1> QED
  BY <1>3, <1>5, <1>7, <1>8, <1>9, Zenon

\* A slice that is as it was leads where it led.
LEMMA KeptLeads ==
  ASSUME NEW b \in Browser, Kept(b), Leads(b)
  PROVE  /\ \A d \in wizard'[b].redirects : Good(d.id, d.warning)
         /\ wizard'[b].generateProjectSuccess =>
              Good(wizard'[b].projectDetailsResponse, wizard'[b].generateProjectWarning)
         /\ wizard'[b].projectDetailsResponse = wizard[b].projectDetailsResponse
<1>1. \A d \in wizard'[b].redirects : Good(d.id, d.warning)
  <2>1. SUFFICES ASSUME NEW d \in wizard'[b].redirects PROVE Good(d.id, d.warning)
    OBVIOUS
  <2>2. CASE d \in wizard[b].redirects
    BY <2>2 DEF Leads
  <2>3. CASE d \notin wizard[b].redirects
    <3>1. /\ wizard[b].generateProjectSuccess
          /\ d.id = wizard[b].projectDetailsResponse /\ d.warning = wizard[b].generateProjectWarning
      BY <2>1, <2>3 DEF Kept
    <3> QED
      BY <3>1, Zenon DEF Leads
  <2> QED
    BY <2>2, <2>3
<1>2. wizard'[b].generateProjectSuccess =>
              Good(wizard'[b].projectDetailsResponse, wizard'[b].generateProjectWarning)
  BY Zenon DEF Kept, Leads
<1> QED
  BY <1>1, <1>2 DEF Kept

\* What becomes of the slice of the wizard that has had its turn.
LEMMA LeadsTurn ==
  ASSUME Core, OneMaking, Ready, NEW t \in thunk, NEW r \in open, Waits(t, r), r.live, NEW rest, Turned(t, r, rest),
         ~wizard[t.by].mixed
  PROVE  /\ \A d \in wizard'[t.by].redirects : Good(d.id, d.warning)
         /\ wizard'[t.by].generateProjectSuccess =>
              Good(wizard'[t.by].projectDetailsResponse, wizard'[t.by].generateProjectWarning)
         /\ \/ wizard'[t.by].projectDetailsResponse = wizard[t.by].projectDetailsResponse
            \/ Created(t, r, rest) /\ wizard'[t.by].projectDetailsResponse = r.id
<1>1. t.by \in Browser
  BY ThunkFields
<1>2. Leads(t.by)
  BY <1>1 DEF Ready
<1>3. CASE Kept(t.by)
  BY <1>1, <1>2, <1>3, KeptLeads, Zenon
<1>4. CASE Generated(t, r, rest)
  BY <1>4, GeneratedLeads, Zenon
<1>5. CASE Created(t, r, rest)
  <2>1. /\ wizard'[t.by].projectDetailsResponse = r.id
        /\ wizard'[t.by].generateProjectSuccess = wizard[t.by].generateProjectSuccess
        /\ \A d \in wizard'[t.by].redirects :
              d \in wizard[t.by].redirects \/ wizard[t.by].generateProjectSuccess
    BY <1>5, CreatedEffect
  <2>2. ~wizard[t.by].generateProjectSuccess
    BY <1>1, <1>5 DEF OneMaking, InMaking, Created
  <2>3. \A d \in wizard'[t.by].redirects : d \in wizard[t.by].redirects
    BY <2>1, <2>2, Zenon
  <2>4. \A d \in wizard'[t.by].redirects : Good(d.id, d.warning)
    BY <1>2, <2>3 DEF Leads
  <2>5. ~wizard'[t.by].generateProjectSuccess
    BY <2>1, <2>2, Zenon
  <2> QED
    BY <1>5, <2>1, <2>4, <2>5, Zenon
<1>6. UNCHANGED wizard => Kept(t.by)
  BY DEF Kept
<1>7. \A e \in BOOLEAN : show(t.by, [wizard[t.by] EXCEPT !.generateProjectError = e]) => Kept(t.by)
  BY <1>1, ErrorEffect
<1>8. CASE Proceeded(t, rest) \/ GaveUp(t, rest) \/ Assigned(t, rest)
  <2>1. UNCHANGED wizard \/ \E e \in BOOLEAN : show(t.by, [wizard[t.by] EXCEPT !.generateProjectError = e])
    BY <1>8 DEF Proceeded, GaveUp, Assigned
  <2> QED
    BY <1>3, <1>6, <1>7, <2>1, Zenon
<1>9. CASE Stopped(t, rest)
  BY <1>3, <1>9, StoppedEffect, Zenon
<1>10. CASE Deleted(t, r, rest)
  BY <1>3, <1>10, DeletedEffect, Zenon
<1> QED
  BY <1>4, <1>5, <1>8, <1>9, <1>10 DEF Turned

LEMMA ReadyTurn ==
  ASSUME Core, OneMaking, Ready, NEW r \in open, Next, receive(r) \/ lose(r)
  PROVE  Ready'
<1>1. PICK t \in thunk : \E rest : Waits(t, r) /\ Left(t, rest) /\ Turned(t, r, rest)
  BY Turns
<1>2. PICK rest : Waits(t, r) /\ Left(t, rest) /\ Turned(t, r, rest)
  BY <1>1
<1>3. UNCHANGED <<projects, created, condemned>> /\ r.live /\ t.by \in Browser /\ Alone(t.by)
  BY <1>2, TurnUnchanged, ThunkFields, TurnAlone DEF receive, lose
<1>4. \A p, warned : Good(p, warned) => Good(p, warned)'
  BY <1>3 DEF Good
<1>5. \A q \in open' : Deleting(q) => q.id \in condemned'
  BY <1>2, <1>3, TurnAnswers DEF Ready
<1>6. ASSUME NEW q \in open', q.kind = "generate", q.live, q.step = "ok"
      PROVE  Good(q.id, q.plan.big)'
  BY <1>2, <1>4, <1>6, TurnAnswers DEF Ready
<1>7. ASSUME NEW b \in Browser, ~wizard'[b].mixed
      PROVE  /\ \A d \in wizard'[b].redirects : Good(d.id, d.warning)
             /\ wizard'[b].generateProjectSuccess =>
                  Good(wizard'[b].projectDetailsResponse, wizard'[b].generateProjectWarning)
             /\ \A u \in thunk' : u.by = b /\ InMaking(u) /\ u.step # "create" =>
                  wizard'[b].projectDetailsResponse = u.projectId
  <2>1. ~wizard[b].mixed
    BY <1>7, MixedStays
  <2>2. Leads(b)
    BY <2>1 DEF Ready
  <2>3. CASE b # t.by
    <3>1. wizard'[b] = wizard[b]
      BY <1>3, <2>3 DEF Alone
    <3>2. \A u \in thunk' : u.by = b /\ InMaking(u) => u \in thunk
      BY <1>2, <2>3, TurnMaking
    <3> QED
      BY <2>2, <3>1, <3>2 DEF Leads
  <2>4. CASE b = t.by
    <3>1. /\ \A d \in wizard'[b].redirects : Good(d.id, d.warning)
          /\ wizard'[b].generateProjectSuccess =>
              Good(wizard'[b].projectDetailsResponse, wizard'[b].generateProjectWarning)
          /\ \/ wizard'[b].projectDetailsResponse = wizard[b].projectDetailsResponse
             \/ Created(t, r, rest) /\ wizard'[b].projectDetailsResponse = r.id
      BY <1>2, <1>3, <2>1, <2>4, LeadsTurn
    <3>2. ASSUME NEW u \in thunk', u.by = b, InMaking(u), u.step # "create"
          PROVE  wizard'[b].projectDetailsResponse = u.projectId
      <4>1. \A v \in thunk : v.by = b /\ InMaking(v) /\ v.step # "create" =>
              wizard[b].projectDetailsResponse = v.projectId
        BY <2>2 DEF Leads
      <4>2. \A v, w \in thunk : v.by = b /\ w.by = b /\ InMaking(v) /\ InMaking(w) => v = w
        BY <2>1 DEF OneMaking
      <4>3. CASE Created(t, r, rest)
        <5>1. wizard'[b].projectDetailsResponse = r.id /\ t.step = "create" /\ InMaking(t)
          BY <1>2, <2>4, <4>3, CreatedEffect DEF Created, InMaking
        <5>2. u \notin thunk \ {t}
          BY <2>4, <3>2, <4>2, <5>1
        <5>3. u # t
          BY <3>2, <5>1
        <5> QED
          BY <1>2, <3>2, <5>1, <5>2, <5>3, TurnMaking
      <4>4. CASE ~Created(t, r, rest)
        <5>1. wizard'[b].projectDetailsResponse = wizard[b].projectDetailsResponse
          BY <3>1, <4>4
        <5>2. u \in thunk \/ (InMaking(t) /\ t.step # "create" /\ u.projectId = t.projectId)
          BY <1>2, <3>2, <4>4, TurnMaking
        <5> QED
          BY <2>4, <3>2, <4>1, <5>1, <5>2
      <4> QED
        BY <4>3, <4>4
    <3> QED
      BY <3>1, <3>2
  <2> QED
    BY <2>3, <2>4
<1>8. ASSUME NEW b \in Browser, ~wizard'[b].mixed
      PROVE  Leads(b)'
  BY <1>3, <1>7, <1>8 DEF Leads, Good
<1> QED
  BY <1>5, <1>6, <1>8 DEF Ready

LEMMA ReadyNext == Core /\ Fresh /\ OneMaking /\ Ready /\ [Next]_vars => Ready'
<1>1. SUFFICES ASSUME Core, Fresh, OneMaking, Ready, [Next]_vars PROVE Ready'
  OBVIOUS
<1>2. CASE UNCHANGED vars
  BY <1>1, <1>2 DEF vars, Ready, Leads, Good
<1>3. CASE \E r \in open : backend(r)
  BY <1>1, <1>3, ReadyBackend
<1>4. CASE \E r \in open : receive(r) \/ lose(r)
  BY <1>1, <1>4, ReadyTurn DEF Next
\* The other steps change neither the projects nor what ODK Central has, and answer nothing.
<1>5. ASSUME UNCHANGED <<projects, created, condemned>>,
             \A q \in open' : q \in open \/ q.step = "sent",
             \A b \in Browser : ~wizard'[b].mixed =>
               /\ \A d \in wizard'[b].redirects : Good(d.id, d.warning)
               /\ wizard'[b].generateProjectSuccess =>
                    Good(wizard'[b].projectDetailsResponse, wizard'[b].generateProjectWarning)
               /\ \A t \in thunk' : t.by = b /\ InMaking(t) /\ t.step # "create" =>
                    wizard'[b].projectDetailsResponse = t.projectId
      PROVE  Ready'
  <2>1. \A q \in open' : Deleting(q) => q.id \in condemned'
    BY <1>1, <1>5 DEF Ready, Deleting
  <2>2. \A q \in open' : q.kind = "generate" /\ q.live /\ q.step = "ok" => Good(q.id, q.plan.big)'
    BY <1>1, <1>5 DEF Ready, Good
  <2>3. \A b \in Browser : ~wizard'[b].mixed => Leads(b)'
    BY <1>5 DEF Leads, Good
  <2> QED
    BY <2>1, <2>2, <2>3 DEF Ready
<1>6. \A b \in Browser : ~wizard[b].mixed =>
        /\ \A d \in wizard[b].redirects : Good(d.id, d.warning)
        /\ wizard[b].generateProjectSuccess =>
             Good(wizard[b].projectDetailsResponse, wizard[b].generateProjectWarning)
        /\ \A t \in thunk : t.by = b /\ InMaking(t) /\ t.step # "create" =>
             wizard[b].projectDetailsResponse = t.projectId
  BY <1>1 DEF Ready, Leads
<1>7. CASE \E p \in Project : staff_delete(p)
  <2>1. PICK q \in Request : /\ q.step = "sent" /\ open' = open \union {q}
                             /\ UNCHANGED <<projects, created, condemned, thunk, wizard>>
    BY <1>1, <1>7, StaffAsks
  <2> QED
    BY <1>5, <1>6, <2>1
<1>8. CASE \E b \in Browser, n \in Name, plan \in Plans : submit(b, n, plan)
  <2>1. PICK b \in Browser, n \in Name, plan \in Plans : submit(b, n, plan)
    BY <1>8
  <2>2. PICK t \in Thunk, q \in Request :
          t.by = b /\ t.step = "create" /\ Asks(t, q) /\ thunk' = thunk \union {t} /\ open' = open \union {q}
    BY <1>1, <2>1, SubmitAsks
  <2>3. Kept(b) /\ \A c \in Browser : c # b => wizard'[c] = wizard[c]
    BY <1>1, <2>1, SubmitEffect
  <2>4. ASSUME NEW c \in Browser, ~wizard'[c].mixed
        PROVE  /\ \A d \in wizard'[c].redirects : Good(d.id, d.warning)
               /\ wizard'[c].generateProjectSuccess =>
                    Good(wizard'[c].projectDetailsResponse, wizard'[c].generateProjectWarning)
               /\ \A u \in thunk' : u.by = c /\ InMaking(u) /\ u.step # "create" =>
                    wizard'[c].projectDetailsResponse = u.projectId
    <3>1. ~wizard[c].mixed /\ Leads(c)
      BY <1>1, <2>1, <2>4, MixedStays DEF Next, Ready
    <3>2. CASE c # b
      BY <1>6, <2>2, <2>3, <3>1, <3>2
    <3>3. CASE c = b
      BY <1>6, <2>2, <2>3, <3>1, <3>3, KeptLeads
    <3> QED
      BY <3>2, <3>3
  <2>5. UNCHANGED <<projects, created, condemned>>
    BY <2>1 DEF submit, central
  <2> QED
    BY <1>5, <2>2, <2>4, <2>5 DEF Asks
<1>9. CASE \E b \in Browser : SliceStep(b)
  <2>1. PICK b \in Browser : SliceStep(b)
    BY <1>9
  <2>2. /\ UNCHANGED <<projects, created, condemned, open, thunk>>
        /\ \A c \in Browser : c # b => wizard'[c] = wizard[c]
    BY <1>1, <2>1, SliceSteps DEF Alone
  <2>3. ASSUME NEW c \in Browser, ~wizard'[c].mixed
        PROVE  /\ \A d \in wizard'[c].redirects : Good(d.id, d.warning)
               /\ wizard'[c].generateProjectSuccess =>
                    Good(wizard'[c].projectDetailsResponse, wizard'[c].generateProjectWarning)
               /\ \A u \in thunk' : u.by = c /\ InMaking(u) /\ u.step # "create" =>
                    wizard'[c].projectDetailsResponse = u.projectId
    <3>1. ~wizard[c].mixed /\ Leads(c)
      BY <1>1, <2>1, <2>3, SliceSteps, Zenon DEF Alone, Ready
    <3>2. CASE c # b
      BY <1>6, <2>2, <3>1, <3>2
    <3>3. CASE c = b /\ ~\E d \in wizard[b].redirects : redirect(b, d)
      <4>1. Kept(b)
        BY <1>1, <2>1, <3>3, Elsewhere
      <4> QED
        BY <1>6, <2>2, <3>1, <3>3, <4>1, KeptLeads
    <3>4. CASE c = b /\ \E d \in wizard[b].redirects : redirect(b, d)
      <4>1. /\ wizard'[b].redirects \subseteq wizard[b].redirects
            /\ wizard'[b].projectDetailsResponse = wizard[b].projectDetailsResponse
            /\ ~wizard'[b].generateProjectSuccess
        BY <1>1, <3>4, RedirectEffect
      <4> QED
        BY <2>2, <3>1, <3>4, <4>1 DEF Leads
    <3> QED
      BY <3>2, <3>3, <3>4
  <2> QED
    BY <1>5, <2>2, <2>3
<1> QED
  BY <1>1, <1>2, <1>3, <1>4, <1>7, <1>8, <1>9, Steps

\* RedirectToProject, for any number of wizards, projects, submissions, failures and lost answers:
\* the wizard redirects to a project that has its form and, unless the page warned that files are
\* still generated, its app user; unless it was deleted, or two submissions have met in the slice.
THEOREM RedirectToProjectHolds == Spec => RedirectToProject
<1>1. Init => Core /\ Fresh /\ OneMaking /\ Ready
  <2>1. Init => Fresh /\ OneMaking /\ Ready
    BY DEF Init, Fresh, OneMaking, Ready, Leads, Exists
  <2> QED
    BY <2>1, CoreInit
<1>2. Core /\ Fresh /\ OneMaking /\ Ready /\ [Next]_vars => (Core /\ Fresh /\ OneMaking /\ Ready)'
  BY CoreNext, FreshNext, OneMakingNext, ReadyNext
<1>3. Core /\ Ready =>
        \A b \in Browser : \A d \in wizard[b].redirects :
          redirect(b, d) /\ d.id \notin condemned /\ ~wizard[b].mixed =>
            /\ d.id \in Project /\ Exists(d.id) /\ projects[d.id].odk_form_id
            /\ d.warning \/ projects[d.id].odk_token
  <2>1. SUFFICES ASSUME Core, Ready, NEW b \in Browser, NEW d \in wizard[b].redirects,
                        d.id \notin condemned, ~wizard[b].mixed
                 PROVE  /\ d.id \in Project /\ Exists(d.id) /\ projects[d.id].odk_form_id
                        /\ d.warning \/ projects[d.id].odk_token
    OBVIOUS
  <2>2. Good(d.id, d.warning)
    BY <2>1 DEF Ready, Leads
  <2>3. created \subseteq Project
    BY <2>1 DEF Core, TypeOK
  <2> QED
    BY <2>1, <2>2, <2>3 DEF Good, Exists
<1> QED
  BY <1>1, <1>2, <1>3, PTL DEF Spec, RedirectToProject
===============================================================================

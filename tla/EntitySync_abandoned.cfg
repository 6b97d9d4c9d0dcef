CONSTANTS
    e1 = e1  e2 = e2  r1 = r1
    Entity = {e1}
    Reader = {r1}
    JobSync = "job"
    FormStatus = {"SURVEY_SUBMITTED"}
    Absent = Absent
    EntityWindow = 2
    OpenedWindow = 1
    HooksMayFail = TRUE
    MaxUpdates = 2
    MaxTime = 2
SPECIFICATION Spec
PROPERTIES AbandonedReset

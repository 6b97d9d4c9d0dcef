CONSTANTS
    e1 = e1  e2 = e2  r1 = r1
    Entity = {e1, e2}
    Reader = {r1}
    JobSync = "job"
    FormStatus = {"SURVEY_SUBMITTED", "INVALID"}
    Absent = Absent
    EntityWindow = 1
    OpenedWindow = 1
    HooksMayFail = TRUE
    MaxUpdates = 2
    MaxTime = 1
SPECIFICATION FairSpec
INVARIANTS SettledInSync
PROPERTIES Converges

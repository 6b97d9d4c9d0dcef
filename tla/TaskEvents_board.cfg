CONSTANTS
    p1 = p1  t1 = t1  svc = svc
    Project = {p1}
    Task = {t1}
    TaskProject <- OneTask
    User = {svc}
    SvcUser = svc
    NoUser = NoUser
    Deletable = {svc}
    Busy = {}
    Payload <- ClientPayload
    Job = {"cron", "manual"}
    Cron = "cron"
    NoProject = NoProject
    MapHold = 0
    AssignHold = 1
    EntityWindow = 1
    OpenedWindow = 1
    ActiveWindow = 2
    CronPeriod = 1
    OdkMayFail = TRUE
    CronTimely = FALSE
    MaxEvents = 3
    MaxClock = 3
    MaxTime = 1
SPECIFICATION Spec
INVARIANTS RowsOwned
PROPERTIES FreshEventSurvives UnlockOnlyLocked BoardSpec

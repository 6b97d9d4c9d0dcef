CONSTANTS
    p1 = p1  t1 = t1  svc = svc
    Project = {p1}
    Task = {t1}
    TaskProject <- OneTask
    User = {svc}
    SvcUser = svc
    NoUser = NoUser
    Deletable = {}
    Busy = {p1}
    Payload <- LockPayload
    Job = {"cron"}
    Cron = "cron"
    NoProject = NoProject
    MapHold = 1
    AssignHold = 2
    EntityWindow = 2
    OpenedWindow = 1
    ActiveWindow = 5
    CronPeriod = 1
    OdkMayFail = FALSE
    CronTimely = TRUE
    MaxEvents = 2
    MaxClock = 9
    MaxTime = 7
SPECIFICATION Spec
INVARIANTS StaleLockReleased
CHECK_DEADLOCK FALSE

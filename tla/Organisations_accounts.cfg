SPECIFICATION MCSpec
CONSTANTS
  u1 = u1
  u2 = u2
  cron = cron
  demand = demand
  hot = hot
  other = other
  None = None
  User = {u1, u2}
  Run = {cron, demand}
  Cron = cron
  WARNING_INTERVALS = {2, 4, 6}
  THRESHOLD = 7
  Window = 2
  Period = 2
  Late = 0
  MaxGap = 2
  Token = TRUE
  MaxTime = 12
  MaxOrgs = 2
  Name = {hot, other}
  HOTOSM = hot
  LocalAdmin = u1
  Change <- Changes
  MaxRequests = 1
INVARIANTS OrgSound
PROPERTIES AllWarningsSent NotSoonerThanTold

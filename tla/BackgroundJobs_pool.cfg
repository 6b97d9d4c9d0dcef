SPECIFICATION JobsFairSpec
CHECK_DEADLOCK FALSE
CONSTANTS
  r1 = r1  r2 = r2  r3 = r3  c1 = c1  c2 = c2
  Request = {r1, r2, r3}
  NoRequest = NoRequest
  Kind <- Kinds
  Source <- Sources
  Conn = {c1, c2}
  NoConn = NoConn
  MaxFaults = 1
  MaxRestarts = 1
INVARIANTS JobsTypeOK OutcomeSound
PROPERTIES NotEndedByOthers JobReports

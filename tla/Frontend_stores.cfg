SPECIFICATION MCSpec
SYMMETRY Sym
CONSTANTS
  t1 = t1  t2 = t2  b1 = b1  b2 = b2  o1 = o1  o2 = o2
  p1 = p1  p2 = p2  k1 = k1  k2 = k2  u1 = u1  u2 = u2
  MapHold = 3
  AssignHold = 72
  Task = {t1, t2}
  NoTask = NoTask
  Browser = {b1, b2}
  NoBrowser = NoBrowser
  OtherEvent = {"MAP", "GOOD"}
  MaxEvents = 3
  Org = {o1, o2}
  NoOrg = NoOrg
  MaxRequests = 4
  Managed = {p1, p2}
  Unnamed = Unnamed
  Instructed = {p1}
  MaxAsks = 3
  Account = {u1, u2}
  Role = {"MAPPER", "ADMIN"}
  Text = {"", "t"}
  NoText = ""
  Found <- OneOrBoth
  results_per_page = 1
  MaxCalls = 3
  MaxForeign = 1
  Project = {p1, p2}
  NoProject = NoProject
  Area = {k1, k2}
  NoArea = NoArea
  ProjectOf <- OneEach
  Tiled = {p1}
  MaxSends = 3
  MaxOthers = 1
CHECK_DEADLOCK FALSE
INVARIANTS StoresTypeOK ShownIsBoard DetailsFit OneDecision SentFits ListExact CommentsFit TilesFit MenuFits
PROPERTIES TakeoverOnlyBlind

SPECIFICATION MCSpec
CHECK_DEADLOCK FALSE
CONSTANTS
  b1 = b1  p1 = p1  p2 = p2  m1 = m1
  Browser = {b1}
  Staff = Staff
  Project = {p1, p2}
  NoProject = NoProject
  Name = {"name"}
  Manager = {m1}
  NoManager = NoManager
  Plans <- SomePlans
  MaxTries = 2
  MaxVisits = 1
  MaxTroubles = 1
INVARIANTS NoOrphan RetryIsClean
PROPERTIES RedirectToProject SubmissionEnds

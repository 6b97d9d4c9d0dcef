SPECIFICATION WizardFairSpec
CHECK_DEADLOCK FALSE
CONSTANTS
  a1 = a1  a2 = a2  k1 = k1  k2 = k2  good = good  bad = bad
  Area = {a1, a2}
  NoArea = NoArea
  Category = {k1, k2}
  Form = {good, bad}
  NoForm = NoForm
  ValidForm = {good}
  None = None
  MaxEdits = 3
  MaxAsks = 2
INVARIANTS SubmissionConsistent
PROPERTIES SpinnersEnd

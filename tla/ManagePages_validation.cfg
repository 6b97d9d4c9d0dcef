SPECIFICATION MCSpec
CONSTANTS
  t1 = t1  t2 = t2  s1 = s1  s2 = s2  e1 = e1
  Task = {t1, t2}
  NoTask = NoTask
  Sub = {s1, s2}
  NoSub = NoSub
  Entity = {e1}
  EntityOf <- OneEntity
  None = None
  Public = FALSE
  Pages = 2
  MaxOwn = 2
  MaxOthers = 1
  MaxSent = 4
  MaxTable = 2
  MaxReviews = 2
SYMMETRY Alike
INVARIANTS CopiesCurrent TableShowsFilter ReviewAgrees
PROPERTIES EventFits
CHECK_DEADLOCK FALSE

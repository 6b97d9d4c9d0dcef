SPECIFICATION Spec
CONSTANTS
  t1 = t1  t2 = t2  e1 = e1  e2 = e2
  Task = {t1, t2}
  Entity = {e1, e2}
  TaskOf <- TwoTasks
  Reach <- Border
  Around <- Boxes
  Basemap = {b1}
  Forced = FALSE
  None = None
  Blank = Blank
  MaxLoads = 2
INVARIANTS TaskOfFeature FeaturesOfSelected OfflineIsWhole

SPECIFICATION Spec
CONSTANTS
  t1 = t1
  t2 = t2
  t3 = t3
  t4 = t4
  s1 = s1
  s2 = s2
  s3 = s3
  Tasks = {t1, t2, t3, t4}
  Spaces = {s1, s2, s3}
  Root = t1
  Home = s1
  Races = {"unstarted"}
SYMMETRY Alike
INVARIANT SpaceOutlivesUsers
CHECK_DEADLOCK FALSE

SPECIFICATION Spec
CONSTANTS
  p1 = p1
  p2 = p2
  p3 = p3
  r1 = r1
  r2 = r2
  Proc = {p1, p2, p3}
  Root = {r1, r2}
  NoRoot = NoRoot
  Given <- MCGiven
  NoFile = NoFile
  Stale = Stale
  MaxActs = 0
PROPERTY EveryLaunchIsServed
CHECK_DEADLOCK FALSE

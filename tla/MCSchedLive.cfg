CONSTANTS
  a = a
  b = b
  Task = {a, b}
  Idle = Idle
  NoTask = NoTask
  Sig = {s1}
  StartPri <- EqualPri
  NewPri = {1}
  MaxNest = 0
  UsesDisable = FALSE
  BlockInForbid = FALSE
SPECIFICATION FairSpec
PROPERTIES
  RoundRobin

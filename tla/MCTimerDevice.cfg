CONSTANTS
  Task = {t1, t2, t3}
  Delay = {2, 3}
  Past = {1}
  Ahead = {2}
  Longest = 2
  MaxTicks = 6
  NULL = NULL
SPECIFICATION MCSpec
SYMMETRY Symmetry
INVARIANTS
  OnePlace
  WaitIOWaits
  Punctual
  LinksExact

CONSTANTS
  Task = {t1}
  Delay = {1}
  Past = {}
  Ahead = {}
  Longest = 2
  MaxTicks = 6
SPECIFICATION FairSpec
PROPERTIES
  DoIOReturns

CONSTANTS
  Task = {t1, t2, t3}
  NoTask = NoTask
  MaxHold = 3
SPECIFICATION Spec
INVARIANTS
  CountsExact
  OwnerExact
  WaiterStopsTheRest
PROPERTIES
  LockSpec

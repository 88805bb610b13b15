CONSTANTS
  a = a
  b = b
  Task = {a, b}
  Idle = Idle
  NoTask = NoTask
  Sig = {s1, s2}
  StartPri <- Prioritised
  NewPri <- AsIdle
  MaxNest = 2
  UsesDisable = TRUE
  BlockInForbid = FALSE
SPECIFICATION Spec
SYMMETRY Symmetry
CONSTRAINT OneSignalInForbid
INVARIANTS
  TypeOK
  QueuesExact
  NotReached
  ForbidExclusive
  Resumable
  SafeWhenDisabled
  WaitFindsSignal
PROPERTIES
  NoSwitchInForbid
  PriorityDispatch

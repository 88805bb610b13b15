CONSTANTS
  NULL = NULL
  None = None
  NoName = NoName
  exec = exec
  expansion = expansion
  utility = utility
  timer = timer
  testdev = testdev
  n1 = n1
  n2 = n2
  n3 = n3
  dh0 = dh0
  dh1 = dh1
  Task = {t1, t2}
  Exec = exec
  Module = {expansion, utility, timer, testdev}
  Kind <- Kinds
  Class <- Classes
  RtPri <- RtPris
  LibPri <- LibPris
  Version <- Versions
  Units <- OneUnit
  Leaky = {timer}
  FuncTab <- Tables
  MaxOpen = 1
  MaxCount = 2
  MaxWrites = 2
  Maker = {t1, t2, t3}
  Node = {n1, n2, n3}
  DosName = {dh0, dh1}
  BootPri <- BootPris
SPECIFICATION MCSpec
PROPERTIES
  SumsTable
CHECK_DEADLOCK FALSE

CONSTANTS
  s1 = s1
  s2 = s2
  s3 = s3
  tick = tick
  Server = {s1, s2, s3}
  Claims = {s2, s3, tick}
  SrvPri <- Pris
  Tick = tick
  Lines = {1, 3, 34, 64}
  W = 7
  Million = 50
  TimeVals <- SomeTimes
  Longs <- SomeLongs
  Shifts = {0, 1, 6, 7, 8, 13}
  Printed <- SomePrinted
  Numbers <- SomeNumbers
  Widths <- SomeWidths
  Precs <- SomePrecs
  FlagSets <- SomeFlags
  Texts <- SomeTexts
  Arena <- SomeArena
  Dests = {0, 1, 2, 3, 28, 30}
  Srcs = {80, 81, 82, 83}
  Sizes <- SomeSizes
  Tags <- TagKinds
  TagArrays <- SomeArrays
  MoreArrays <- SecondArrays
  Strings <- SomeStrings
SPECIFICATION MCSpec
INVARIANTS
  DispatchExact
  ArithmeticExact
  TextExact
  BlocksExact
  DataExact

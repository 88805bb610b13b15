CONSTANTS
  c1 = c1
  c2 = c2
  Client = {c1, c2}
  Dev = Dev
  Idle = Idle
  NoReq = NoReq
  Uses <- WriteAndUpdate
SPECIFICATION FairSpec
INVARIANTS
  OnePlace
  NothingForgotten
  ReplySignalled
  Answered
PROPERTIES
  Served

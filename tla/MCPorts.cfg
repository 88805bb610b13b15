CONSTANTS
  NULL = NULL
  Server = {s1}
  Client = {c1}
  p1 = p1
  p2 = p2
  p3 = p3
  a = a
  b = b
  Port = {p1, p2, p3}
  LHead = LHead
  LTail = LTail
  Name = {a, b}
  NameOf <- Names
  Pri <- Pris
  Bits = 2
  MaxMail = 1
SYMMETRY Swap
SPECIFICATION Spec
INVARIANTS
  ListExact
  FindPortFinds
  BitsOwned
  SleepsOnMail

CONSTANTS
  big = big
  small = small
  Region = {big, small}
  Base <- Bases
  Size <- Sizes
  Pri <- Pris
  Request = {1, 3, 9}
SPECIFICATION Spec
INVARIANTS
  FreeListExact
PROPERTIES
  HeapSpec
  OnlyFragmentsClearVectors

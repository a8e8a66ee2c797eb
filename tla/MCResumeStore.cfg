SPECIFICATION Spec
CONSTANTS
  s1 = s1
  s2 = s2
  big = big
  small = small
  Session <- MCSession
  Resource <- MCResource
  Size <- MCSize
  Retention = 0
  MaxChunk = 2
  MaxClock = 1
SYMMETRY Symmetry
INVARIANTS
  TypeOK
  DeliveredIntact
  LoneSessionKeepsPrefix
  FreshSessionKeepsPartial

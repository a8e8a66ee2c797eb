SPECIFICATION Spec
CONSTANTS
  alice = alice
  bob = bob
  file = file
  Resource <- OneFile
  Size <- TwoBytes
  Retention = 0
  Sender <- OnlyAlice
  KindChoices <- Misnamed
  ResourceOf <- SameFile
  MaxAttempts = 2
  MaxChunk = 2
  Faults = {}
  MaxFaults = 0
  MaxClock = 0
INVARIANTS
  NameMismatchIsFatal

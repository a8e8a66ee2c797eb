SPECIFICATION Spec
CONSTANTS
  alice = alice
  bob = bob
  file = file
  Resource <- OneFile
  Size <- TwoBytes
  Retention = 0
  Sender <- TwoSenders
  KindChoices <- DirectAndAnother
  ResourceOf <- SameFile
  MaxAttempts = 2
  MaxChunk = 2
  Faults = {"break", "crash", "late", "refused", "vanish"}
  MaxFaults = 2
  MaxClock = 0
INVARIANTS
  AttemptsNeedFaults
PROPERTIES
  ListenerReturns
  SendersFinish

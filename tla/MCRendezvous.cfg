SPECIFICATION Spec
CONSTANTS
  ann = ann
  none = none
  home = home
  Receiver <- OneReceiver
  MaxRounds = 2
  Acceptable <- Accepted
  Requested = 9
  Tolerance = 2
  ClientMaxTtl = 6
  MaxTtl = 6
  Skew = 1
  Faults = {"lost", "late", "kill"}
  Deployments <- BusyOrFaulty
INVARIANTS
  LiveDescriptorFound
  GoneReceiverForgotten
  CursorSkipsNobody

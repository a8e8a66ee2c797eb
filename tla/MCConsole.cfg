SPECIFICATION Spec
CONSTANTS
  one = one
  two = two
  Commands <- AllCommands
  Services <- NoneOrAll
  Peers <- TwoPeers
  RetryAttempts = 2
  MaxStarts = 2
  MaxRows = 1
  MaxRounds = 3
  MaxBacklog = 1
  Faults = {"terminal"}
INVARIANTS
  IdleMeansQuiet
  DashboardAgrees
  RoundsNeedKeys
PROPERTIES
  IdleReceiverStops
  SendReturns
  QuitEnds

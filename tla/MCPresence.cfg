SPECIFICATION Spec
CONSTANTS
  MaxRounds = 2
  Protocols = {"upnp", "natpmp"}
  Troubles = {"forget", "address", "conflict", "moved", "refused"}
  Weight <- Weights
  MaxRecord = 2
  Budget = 4
  MinDiversity = 1
  Scenes <- AllScenes
INVARIANTS
  DeadEndpointsHaveCauses
  SettledReceiverFound
  StaleOnlyIfRedated
PROPERTIES
  EndpointsHeal
  AnnouncementsSettle

SPECIFICATION Spec
CONSTANTS
  alice = alice
  bob = bob
  photo = photo
  movie = movie
  quic = quic
  relay = relay
  Resource <- PhotoAndMovie
  Size <- TwoAndOneByte
  Retention = 0
  Sender <- TwoSenders
  ResourceOf <- AlicesPhotoBobsMovie
  Route <- OneRoute
  Relay <- NoRelay
  MaxAttempts = 2
  MaxChunk = 2
  Faults = {"break", "late", "unpack", "nothing", "other", "quit"}
  MaxFaults = 1
INVARIANTS
  CopiesHaveCauses
  PathSurvives
PROPERTIES
  ImplementsDelivery
